---- MODULE Spec2Model ----
(***************************************************************************)
(* Model of the form-agent decision loop (runCodingAgent), its tool        *)
(* handlers and the structured call client (makeAICall).                   *)
(*                                                                         *)
(* Spec       : one run of runCodingAgent (planning phase, step loop).     *)
(* SpecDecode : the decoding of one model response into a Decision.        *)
(* SpecCall   : one invocation of makeAICall (attempts, fallback,          *)
(*              backoff).                                                   *)
(***************************************************************************)
EXTENDS Integers, Sequences, FiniteSets, TLC

(***************************************************************************)
(* Bounds of the model.                                                    *)
(***************************************************************************)
MaxSteps == 2
MaxCap == 1
MaxRetries == 6
MaxMessages == 22

(***************************************************************************)
(* Strings: String.prototype.toLowerCase and String.prototype.includes.    *)
(***************************************************************************)
LowerChar(c) ==
  CASE c = "A" -> "a" [] c = "B" -> "b" [] c = "C" -> "c" [] c = "D" -> "d"
    [] c = "E" -> "e" [] c = "F" -> "f" [] c = "G" -> "g" [] c = "H" -> "h"
    [] c = "I" -> "i" [] c = "J" -> "j" [] c = "K" -> "k" [] c = "L" -> "l"
    [] c = "M" -> "m" [] c = "N" -> "n" [] c = "O" -> "o" [] c = "P" -> "p"
    [] c = "Q" -> "q" [] c = "R" -> "r" [] c = "S" -> "s" [] c = "T" -> "t"
    [] c = "U" -> "u" [] c = "V" -> "v" [] c = "W" -> "w" [] c = "X" -> "x"
    [] c = "Y" -> "y" [] c = "Z" -> "z" [] OTHER -> c

RECURSIVE toLowerCase(_)
toLowerCase(s) ==
  IF Len(s) = 0 THEN ""
  ELSE LowerChar(SubSeq(s, 1, 1)) \o toLowerCase(SubSeq(s, 2, Len(s)))

includes(s, p) ==
  \E i \in 1..(Len(s) - Len(p) + 1) : SubSeq(s, i, i + Len(p) - 1) = p

(***************************************************************************)
(* Errors a model call can fail with.  name and message are the fields of  *)
(* the JavaScript Error; kind records what actually went wrong and is      *)
(* never read by the program.                                              *)
(***************************************************************************)
TimeoutError ==
  [name |-> "Error", message |-> "OPENAI API call timeout after 120 seconds",
   kind |-> "timeout"]
NetworkError ==
  [name |-> "TypeError", message |-> "fetch failed", kind |-> "network"]
TransientError ==
  [name |-> "AI_RetryError",
   message |-> "Failed after 3 attempts. Last error: Service Unavailable",
   kind |-> "transient"]
AuthError ==
  [name |-> "AI_APICallError", message |-> "Incorrect API key provided",
   kind |-> "auth"]
SchemaRejected ==
  [name |-> "AI_APICallError",
   message |-> "Invalid schema for response_format 'Decision'",
   kind |-> "schema"]
OllamaSchemaRejected ==
  [name |-> "Error", message |-> "invalid JSON schema in format",
   kind |-> "schema"]
NoObjectGenerated ==
  [name |-> "AI_NoObjectGeneratedError",
   message |-> "No object generated: response did not match schema.",
   kind |-> "no_object"]

NoError == [name |-> "none", message |-> "", kind |-> "none"]

Errors ==
  {TimeoutError, NetworkError, TransientError, AuthError, SchemaRejected,
   OllamaSchemaRejected, NoObjectGenerated}

\* Error.prototype.toString
ErrorString(e) == e.name \o ": " \o e.message

fatalErrorPatterns ==
  {"invalid schema for response_format", "invalid schema",
   "invalid json schema", "schema must be a json schema", "type: \"none\"",
   "response_format", "ai_apicallerror", "ollamaerror", "invalid format"}

isFatalSchemaError(e) ==
  \E pattern \in fatalErrorPatterns :
    \/ includes(toLowerCase(e.message), pattern)
    \/ includes(toLowerCase(ErrorString(e)), pattern)

FatalErrors == {e \in Errors : isFatalSchemaError(e)}

(***************************************************************************)
(* JSON values a model response can parse to.                              *)
(***************************************************************************)
Absent == "absent"

validActions ==
  {"read_files", "search_repo", "write_patch", "run_cmd", "evaluate_work",
   "create_plan", "analyze_project", "validate_form_json",
   "generate_expression", "generate_translations", "generate_form_json",
   "final_answer"}

\* tool_input values: missing, a falsy value (null, 0, ""), a truthy value
\* that is not an object (a non-empty string), the object {} and an object
\* carrying the fields of the action.
ToolInputValues == {Absent, "falsy", "string", "empty", "full"}

Truthy(v) == v \notin {Absent, "falsy"}

\* the `properties` wrapper some providers put around the payload
NoProperties == [present |-> FALSE, action |-> Absent, tool_input |-> Absent]
Properties(a, ti) == [present |-> TRUE, action |-> a, tool_input |-> ti]

JObject(a, ti, props) ==
  [type |-> "object", action |-> a, tool_input |-> ti, properties |-> props]

TopLevelObjects ==
  {JObject(a, ti, NoProperties) :
     a \in validActions \cup {Absent, "bogus"}, ti \in ToolInputValues}

WrappedObjects ==
  {JObject(a, "full", Properties(pa, pti)) :
     a \in {Absent, "read_files"},
     pa \in {Absent, "bogus", "search_repo", "final_answer"},
     pti \in {Absent, "full"}}

JNull == [type |-> "null"]

ParsedValues ==
  {JNull, [type |-> "number"], [type |-> "array"]}
    \cup TopLevelObjects \cup WrappedObjects

NoValue == [type |-> "none"]
Unparseable == [kind |-> "garbage", value |-> NoValue]
EmptyContent == [kind |-> "empty", value |-> NoValue]
JsonContent(v) == [kind |-> "json", value |-> v]

\* message.content of a model response
Contents ==
  {Unparseable, EmptyContent} \cup {JsonContent(v) : v \in ParsedValues}

\* property access on a parsed value (undefined on non-objects and arrays)
Prop(v, f) ==
  IF v.type = "object" THEN v[f] ELSE Absent

\* typeof v === "object" (true of arrays and of null)
TypeofObject(v) == v.type \in {"object", "array", "null"}

(***************************************************************************)
(* Decoding of a model response into a Decision.                           *)
(***************************************************************************)
AsDecision(parsed) ==
  [action |-> parsed.action, tool_input |-> parsed.tool_input,
   rationale |-> "model"]

FinalAnswer(rationale) ==
  [action |-> "final_answer", tool_input |-> Absent, rationale |-> rationale]

validateDecisionNoActionCheck(parsed) ==
  IF parsed.type = "null" \/ ~TypeofObject(parsed) THEN JNull
  ELSE IF Prop(parsed, "action") = Absent THEN JNull
  ELSE IF Prop(parsed, "action") # "final_answer"
          /\ ~Truthy(Prop(parsed, "tool_input")) THEN JNull
  ELSE parsed

validateDecisionNoToolInputCheck(parsed) ==
  IF parsed.type = "null" \/ ~TypeofObject(parsed) THEN JNull
  ELSE IF Prop(parsed, "action") = Absent
          \/ Prop(parsed, "action") \notin validActions THEN JNull
  ELSE parsed

validateDecision(parsed) ==
  IF parsed.type = "null" \/ ~TypeofObject(parsed) THEN JNull
  ELSE IF Prop(parsed, "action") = Absent
          \/ Prop(parsed, "action") \notin validActions THEN JNull
  ELSE IF Prop(parsed, "action") # "final_answer"
          /\ ~Truthy(Prop(parsed, "tool_input")) THEN JNull
  ELSE parsed

\* const rawContent = decisionResp.choices[0].message.content || "{}"
RawContentOf(content) ==
  IF content.kind = "empty"
    THEN JsonContent(JObject(Absent, Absent, NoProperties))
    ELSE content

JSONparse(raw) ==
  [threw |-> raw.kind = "garbage", value |-> raw.value]

\* parsed.properties?.action
PropertiesAction(parsed) ==
  IF parsed.type = "object" THEN parsed.properties.action ELSE Absent

extractedDecision(parsed) ==
  JObject(parsed.properties.action,
          IF Truthy(parsed.properties.tool_input)
            THEN parsed.properties.tool_input ELSE "empty",
          NoProperties)

DecodeDecision(raw) ==
  LET p == JSONparse(raw) IN
  IF p.threw THEN FinalAnswer("JSON parsing error occurred")
  ELSE IF p.value.type = "null"
    THEN FinalAnswer("JSON parsing error occurred")
  ELSE IF PropertiesAction(p.value) # Absent
    THEN IF validateDecision(extractedDecision(p.value)).type # "null"
           THEN AsDecision(extractedDecision(p.value))
           ELSE FinalAnswer("Invalid decision structure in properties")
  ELSE IF validateDecision(p.value).type # "null"
         THEN AsDecision(p.value)
         ELSE FinalAnswer("Invalid decision structure")

(***************************************************************************)
(* Generated text.  A text is the sequence of its lexical tokens: the      *)
(* punctuation of JSON, string literals (with their quotes), words,        *)
(* whitespace and the markdown fence; the characters of the text are the   *)
(* concatenation of the tokens.  The string literals of the texts followed *)
(* here hold no quote, brace, bracket, comma or angle bracket, so that the *)
(* character scans and regular expressions of the code act on whole        *)
(* tokens.                                                                 *)
(***************************************************************************)
Q(s) == "\"" \o s \o "\""

\* the markdown fence of three backquotes, which a TLA+ string cannot hold
Fence == "~~~"

IsSpace(t) == t \in {" ", "\n"}
IsString(t) == Len(t) >= 2 /\ SubSeq(t, 1, 1) = "\""
\* [a-zA-Z_$][a-zA-Z0-9_$]*
IsWord(t) ==
  /\ t # ""
  /\ ~IsSpace(t)
  /\ ~IsString(t)
  /\ t \notin {"{", "}", "[", "]", ",", ":"}
  /\ t # Fence

\* the token at position i, "" outside the text
At(ts, i) == IF i >= 1 /\ i <= Len(ts) THEN ts[i] ELSE ""

\* the first position from i on that holds no whitespace
RECURSIVE Skip(_, _)
Skip(ts, i) ==
  IF i <= Len(ts) /\ IsSpace(ts[i]) THEN Skip(ts, i + 1) ELSE i

\* the last position up to i that holds no whitespace
RECURSIVE SkipBack(_, _)
SkipBack(ts, i) ==
  IF i >= 1 /\ IsSpace(ts[i]) THEN SkipBack(ts, i - 1) ELSE i

\* String.prototype.trim
trim(ts) == SubSeq(ts, Skip(ts, 1), SkipBack(ts, Len(ts)))

RECURSIVE length(_)
\* String.prototype.length
length(ts) == IF ts = <<>> THEN 0 ELSE Len(Head(ts)) + length(Tail(ts))

(***************************************************************************)
(* JSON.parse: the grammar of JSON over the tokens.  ValueEnd(ts, i) is    *)
(* the position after the value that starts at i, 0 when there is none.    *)
(***************************************************************************)
RECURSIVE ValueEnd(_, _), MembersEnd(_, _), ElementsEnd(_, _)
ValueEnd(ts, i) ==
  LET t == At(ts, i) IN
  IF IsString(t) \/ t \in {"true", "false", "null"} THEN i + 1
  ELSE IF t = "{"
    THEN IF At(ts, Skip(ts, i + 1)) = "}"
           THEN Skip(ts, i + 1) + 1
           ELSE MembersEnd(ts, Skip(ts, i + 1))
  ELSE IF t = "["
    THEN IF At(ts, Skip(ts, i + 1)) = "]"
           THEN Skip(ts, i + 1) + 1
           ELSE ElementsEnd(ts, Skip(ts, i + 1))
  ELSE 0

\* the members of an object from the key at j on, up to the closing brace
MembersEnd(ts, j) ==
  IF ~IsString(At(ts, j)) \/ At(ts, Skip(ts, j + 1)) # ":" THEN 0
  ELSE LET e == ValueEnd(ts, Skip(ts, Skip(ts, j + 1) + 1)) IN
       IF e = 0 THEN 0
       ELSE IF At(ts, Skip(ts, e)) = "}" THEN Skip(ts, e) + 1
       ELSE IF At(ts, Skip(ts, e)) = ","
         THEN MembersEnd(ts, Skip(ts, Skip(ts, e) + 1))
       ELSE 0

\* the elements of an array from the value at j on, up to the closing bracket
ElementsEnd(ts, j) ==
  LET e == ValueEnd(ts, j) IN
  IF e = 0 THEN 0
  ELSE IF At(ts, Skip(ts, e)) = "]" THEN Skip(ts, e) + 1
  ELSE IF At(ts, Skip(ts, e)) = ","
    THEN ElementsEnd(ts, Skip(ts, Skip(ts, e) + 1))
  ELSE 0

\* JSON.parse(ts) does not throw
Parses(ts) ==
  LET e == ValueEnd(ts, Skip(ts, 1)) IN e # 0 /\ Skip(ts, e) > Len(ts)

\* the parsed value, written as JSON.stringify writes it
Parsed(ts) == SelectSeq(ts, LAMBDA t : ~IsSpace(t))

\* the first position from i on that holds the token, 0 when there is none
RECURSIVE indexOf(_, _, _)
indexOf(ts, tok, i) ==
  IF i > Len(ts) THEN 0
  ELSE IF ts[i] = tok THEN i
  ELSE indexOf(ts, tok, i + 1)

\* the last position up to i that holds the token, 0 when there is none
RECURSIVE lastIndexOf(_, _, _)
lastIndexOf(ts, tok, i) ==
  IF i < 1 THEN 0
  ELSE IF ts[i] = tok THEN i
  ELSE lastIndexOf(ts, tok, i - 1)

\* what extractJsonFromText returns when no strategy finds JSON
NoJson == <<>>

\* Strategy 1: the content of the first markdown code block
jsonBlockMatch(text) ==
  LET open == indexOf(text, Fence, 1)
      close == IF open = 0 THEN 0 ELSE indexOf(text, Fence, open + 1)
      from == IF At(text, open + 1) = "json" THEN open + 2 ELSE open + 1
  IN IF close = 0 \/ from > close THEN NoJson
     ELSE trim(SubSeq(text, from, close - 1))

(***************************************************************************)
(* Strategies 2 and 3: the scan that counts the opening and the closing    *)
(* delimiter from position i on.  A candidate is returned only when        *)
(* JSON.parse accepts it as it stands; otherwise the start is forgotten    *)
(* and the scan goes on.                                                   *)
(***************************************************************************)
RECURSIVE scanBalanced(_, _, _, _, _, _)
scanBalanced(text, open, close, i, count, startIndex) ==
  IF i > Len(text) THEN NoJson
  ELSE IF text[i] = open
    THEN scanBalanced(text, open, close, i + 1, count + 1,
                      IF startIndex = 0 THEN i ELSE startIndex)
  ELSE IF text[i] = close
    THEN IF count - 1 = 0 /\ startIndex # 0
           THEN IF Parses(SubSeq(text, startIndex, i))
                  THEN SubSeq(text, startIndex, i)
                  ELSE scanBalanced(text, open, close, i + 1, 0, 0)
           ELSE scanBalanced(text, open, close, i + 1, count - 1, startIndex)
  ELSE scanBalanced(text, open, close, i + 1, count, startIndex)

\* the least number of characters between the braces of Strategy 4
JsonLikeMinLength == 10

\* Strategy 4: from the first opening brace to the last closing brace
jsonLikeMatch(text) ==
  LET open == indexOf(text, "{", 1)
      close == lastIndexOf(text, "}", Len(text))
  IN IF open = 0 \/ close <= open THEN NoJson
     ELSE IF length(SubSeq(text, open + 1, close - 1)) < JsonLikeMinLength
       THEN NoJson
     ELSE SubSeq(text, open, close)

extractJsonFromText(text) ==
  IF Parses(jsonBlockMatch(text)) THEN jsonBlockMatch(text)
  ELSE IF scanBalanced(text, "{", "}", 1, 0, 0) # NoJson
    THEN scanBalanced(text, "{", "}", 1, 0, 0)
  ELSE IF scanBalanced(text, "[", "]", 1, 0, 0) # NoJson
    THEN scanBalanced(text, "[", "]", 1, 0, 0)
  ELSE IF Parses(jsonLikeMatch(text)) THEN jsonLikeMatch(text)
  ELSE IF Parses(text) THEN text
  ELSE NoJson

\* ,(\s*[}\]]) replaced by $1, from position i on
RECURSIVE removeTrailingCommas(_, _)
removeTrailingCommas(ts, i) ==
  IF i > Len(ts) THEN <<>>
  ELSE IF ts[i] = "," /\ At(ts, Skip(ts, i + 1)) \in {"}", "]"}
    THEN removeTrailingCommas(ts, i + 1)
  ELSE <<ts[i]>> \o removeTrailingCommas(ts, i + 1)

\* ([{,]\s*)([a-zA-Z_$][a-zA-Z0-9_$]*)\s*: replaced by $1"$2":, from i on
RECURSIVE quoteUnquotedKeys(_, _)
quoteUnquotedKeys(ts, i) ==
  IF i > Len(ts) THEN <<>>
  ELSE IF /\ ts[i] \in {"{", ","}
          /\ IsWord(At(ts, Skip(ts, i + 1)))
          /\ At(ts, Skip(ts, Skip(ts, i + 1) + 1)) = ":"
    THEN SubSeq(ts, i, Skip(ts, i + 1) - 1)
           \o <<Q(ts[Skip(ts, i + 1)]), ":">>
           \o quoteUnquotedKeys(ts, Skip(ts, Skip(ts, i + 1) + 1) + 1)
  ELSE <<ts[i]>> \o quoteUnquotedKeys(ts, i + 1)

(***************************************************************************)
(* repairMalformedJSON.  A text that parses is returned as it is (its      *)
(* tool_input is no string of XML in the texts followed here); one that    *)
(* does not parse loses its trailing commas and has its unquoted keys      *)
(* quoted (it holds no XML parameter and no escaped quote).  Nothing is    *)
(* removed before or after the JSON.                                       *)
(***************************************************************************)
repairMalformedJSON(text) ==
  IF Parses(text) THEN text
  ELSE quoteUnquotedKeys(removeTrailingCommas(text, 1), 1)

(***************************************************************************)
(* Parsed objects.  A parsed value is kept as the tokens JSON.stringify    *)
(* writes for it; an object is read as the sequence of its members, in     *)
(* their order.  Undefined is the value of a member that is not there.     *)
(***************************************************************************)
Undefined == <<>>

Unquote(t) == SubSeq(t, 2, Len(t) - 1)

IsObjectValue(v) == v # Undefined /\ v[1] = "{"
IsStringValue(v) == Len(v) = 1 /\ IsString(v[1])

\* neither undefined, null, false nor ""
truthy(v) == v \notin {Undefined, <<"null">>, <<"false">>, <<Q("")>>}

\* the members of an object from the key at j on
RECURSIVE membersFrom(_, _)
membersFrom(ts, j) ==
  LET e == ValueEnd(ts, j + 2) IN
  <<[key |-> Unquote(ts[j]), value |-> SubSeq(ts, j + 2, e - 1)]>>
    \o (IF At(ts, e) = "," THEN membersFrom(ts, e + 1) ELSE <<>>)

\* the members of an object, in their order
members(v) ==
  IF IsObjectValue(v) /\ Len(v) > 2 THEN membersFrom(v, 2) ELSE <<>>

\* obj[key]
RECURSIVE get(_, _)
get(ms, key) ==
  IF ms = <<>> THEN Undefined
  ELSE IF ms[Len(ms)].key = key THEN ms[Len(ms)].value
  ELSE get(SubSeq(ms, 1, Len(ms) - 1), key)

\* obj[key] = value
set(ms, key, value) ==
  IF \E i \in 1..Len(ms) : ms[i].key = key
    THEN [i \in 1..Len(ms) |->
            IF ms[i].key = key THEN [key |-> key, value |-> value] ELSE ms[i]]
    ELSE Append(ms, [key |-> key, value |-> value])

\* delete obj[key]
delete(ms, key) == SelectSeq(ms, LAMBDA m : m.key # key)

RECURSIVE joinMembers(_)
joinMembers(ms) ==
  IF ms = <<>> THEN <<>>
  ELSE <<Q(ms[1].key), ":">> \o ms[1].value
         \o (IF Len(ms) > 1 THEN <<",">> ELSE <<>>)
         \o joinMembers(Tail(ms))

\* JSON.stringify of an object
stringify(ms) == <<"{">> \o joinMembers(ms) \o <<"}">>

IsArrayValue(v) == v # Undefined /\ v[1] = "["

\* the elements of an array from the value at j on
RECURSIVE elementsFrom(_, _)
elementsFrom(ts, j) ==
  LET e == ValueEnd(ts, j) IN
  <<SubSeq(ts, j, e - 1)>>
    \o (IF At(ts, e) = "," THEN elementsFrom(ts, e + 1) ELSE <<>>)

\* the elements of an array, in their order
elements(v) ==
  IF IsArrayValue(v) /\ Len(v) > 2 THEN elementsFrom(v, 2) ELSE <<>>

RECURSIVE joinElements(_)
joinElements(es) ==
  IF es = <<>> THEN <<>>
  ELSE es[1] \o (IF Len(es) > 1 THEN <<",">> ELSE <<>>)
         \o joinElements(Tail(es))

\* what a call that throws a TypeError leaves in place of its value
TypeErrorThrown == <<"TypeError">>

\* String.prototype.trim of a string value
RECURSIVE trimString(_)
trimString(s) ==
  IF s = "" THEN ""
  ELSE IF SubSeq(s, 1, 1) = " " THEN trimString(SubSeq(s, 2, Len(s)))
  ELSE IF SubSeq(s, Len(s), Len(s)) = " "
    THEN trimString(SubSeq(s, 1, Len(s) - 1))
  ELSE s

\* replace(/^(Required|Optional):\s*/i, "").trim(); no step text followed
\* here starts with a step number
cleanStepText(s) ==
  IF toLowerCase(SubSeq(s, 1, 9)) \in {"required:", "optional:"}
    THEN trimString(SubSeq(s, 10, Len(s)))
    ELSE trimString(s)

\* step.dependencies and stepText.replace throw a TypeError for a step that
\* is null and for a step text that is neither falsy nor a string
stepThrows(step) ==
  \/ step = <<"null">>
  \/ /\ IsObjectValue(step)
     /\ truthy(get(members(step), "step"))
     /\ ~IsStringValue(get(members(step), "step"))

\* the callback of data.steps.map
repairStep(step) ==
  LET ms == members(step)
      stepText == IF truthy(get(ms, "step")) THEN Unquote(get(ms, "step")[1])
                  ELSE ""
      cleanedStep == cleanStepText(stepText)
      required ==
        IF get(ms, "required") \in {Undefined, <<"null">>}
          THEN (IF includes(toLowerCase(stepText), "optional")
                  THEN <<"false">> ELSE <<"true">>)
          ELSE get(ms, "required")
      dependencies == IF IsArrayValue(get(ms, "dependencies"))
                        THEN get(ms, "dependencies") ELSE <<"[", "]">>
  IN stringify(<<[key |-> "step",
                  value |-> <<Q(IF cleanedStep # "" THEN cleanedStep
                                ELSE stepText)>>],
                 [key |-> "required", value |-> required],
                 [key |-> "dependencies", value |-> dependencies]>>)

repairPlanSteps(data) ==
  IF IsObjectValue(data) /\ IsArrayValue(get(members(data), "steps"))
    THEN LET steps == elements(get(members(data), "steps")) IN
         IF \E i \in 1..Len(steps) : stepThrows(steps[i])
           THEN TypeErrorThrown
           ELSE stringify(set(members(data), "steps",
                  <<"[">> \o joinElements([i \in 1..Len(steps) |->
                                             repairStep(steps[i])])
                    \o <<"]">>))
    ELSE data

\* obj.tool_input?.[field]
toolInputField(ms, field) ==
  IF IsObjectValue(get(ms, "tool_input"))
    THEN get(members(get(ms, "tool_input")), field)
    ELSE Undefined

\* the fields repairDecisionObject infers an action from, in its order
InferredActions ==
  << [field |-> "paths", action |-> "read_files"],
     [field |-> "query", action |-> "search_repo"],
     [field |-> "formGenerationRequest", action |-> "generate_form_json"],
     [field |-> "expressionRequest", action |-> "generate_expression"],
     [field |-> "translationRequest", action |-> "generate_translations"],
     [field |-> "formJson", action |-> "validate_form_json"],
     [field |-> "scan_directories", action |-> "analyze_project"],
     [field |-> "plan_steps", action |-> "create_plan"],
     [field |-> "command", action |-> "run_cmd"],
     [field |-> "patch", action |-> "write_patch"],
     [field |-> "evaluation", action |-> "evaluate_work"] >>

RECURSIVE inferAction(_, _)
inferAction(ms, i) ==
  IF i > Len(InferredActions) THEN "final_answer"
  ELSE IF \/ truthy(toolInputField(ms, InferredActions[i].field))
          \/ truthy(get(ms, InferredActions[i].field))
    THEN InferredActions[i].action
  ELSE inferAction(ms, i + 1)

toolInputFields ==
  <<"paths", "query", "patch", "command", "evaluation",
    "formGenerationRequest", "expressionRequest", "translationRequest",
    "formJson", "schemaPath", "scan_directories", "plan_steps",
    "project_context">>

\* the loop that moves the top-level fields into tool_input, from field i on
RECURSIVE moveFields(_, _)
moveFields(ms, i) ==
  IF i > Len(toolInputFields) THEN ms
  ELSE IF /\ get(ms, toolInputFields[i]) # Undefined
          /\ toolInputField(ms, toolInputFields[i]) = Undefined
          /\ IsObjectValue(get(ms, "tool_input"))
    THEN moveFields(
           delete(set(ms, "tool_input",
                      stringify(Append(members(get(ms, "tool_input")),
                                       [key |-> toolInputFields[i],
                                        value |-> get(ms, toolInputFields[i])]))),
                  toolInputFields[i]),
           i + 1)
  ELSE moveFields(ms, i + 1)

repairDecisionObject(data) ==
  IF ~IsObjectValue(data) THEN data
  ELSE
    LET ms0 == members(data)
        ms1 == IF ~truthy(get(ms0, "action"))
                    \/ ~IsStringValue(get(ms0, "action"))
                 THEN set(ms0, "action", <<Q(inferAction(ms0, 1))>>)
                 ELSE ms0
        \* toLowerCase().trim(): no action of the texts holds whitespace
        normalizedAction == toLowerCase(Unquote(get(ms1, "action")[1]))
        ms2 == IF normalizedAction \in validActions
                 THEN set(ms1, "action", <<Q(normalizedAction)>>)
                 ELSE ms1
        \* typeof is "object" for an array too
        ms3 == IF truthy(get(ms2, "tool_input"))
                    /\ get(ms2, "tool_input")[1] \notin {"{", "["}
                 THEN set(ms2, "tool_input", <<"{", "}">>)
                 ELSE ms2
        ms4 == IF ~truthy(get(ms3, "tool_input"))
                 THEN set(ms3, "tool_input", <<"{", "}">>)
                 ELSE ms3
    IN stringify(moveFields(ms4, 1))

\* the object handed to repairDecisionObject as the call leaves it.
\* `repaired` is a shallow copy ({ ...data }): action and the deleted
\* fields change in the copy only, but a tool_input that is an object is
\* the very object of data, and the loop that moves the top-level fields
\* writes into it; returned is what repairDecisionObject(data) returns
argumentAfterRepair(data, returned) ==
  IF IsObjectValue(data) /\ IsObjectValue(get(members(data), "tool_input"))
    THEN stringify(set(members(data), "tool_input",
                       get(members(returned), "tool_input")))
    ELSE data

(***************************************************************************)
(* DecisionSchema.  The shape of tool_input in the order of the schema,    *)
(* with the type of each field; the members of the nested objects and the  *)
(* elements of plan_steps are not looked into, and no text followed here   *)
(* holds a number.                                                         *)
(***************************************************************************)
ToolInputShape ==
  << [key |-> "paths", type |-> "strings"],
     [key |-> "query", type |-> "string"],
     [key |-> "patch", type |-> "string"],
     [key |-> "cmd", type |-> "string"],
     [key |-> "args", type |-> "strings"],
     [key |-> "timeoutMs", type |-> "number"],
     [key |-> "files", type |-> "strings"],
     [key |-> "criteria", type |-> "string"],
     [key |-> "plan_steps", type |-> "array"],
     [key |-> "project_context", type |-> "string"],
     [key |-> "scan_directories", type |-> "strings"],
     [key |-> "formJson", type |-> "string"],
     [key |-> "schemaPath", type |-> "string"],
     [key |-> "expressionRequest", type |-> "object"],
     [key |-> "translationRequest", type |-> "object"],
     [key |-> "formGenerationRequest", type |-> "object"] >>

\* DecisionSchema.parse(data) does not throw: action is one of the enum,
\* tool_input is undefined or an object whose known members have their
\* type, rationale is undefined or a string
SchemaAccepts(data) ==
  LET HasType(v, type) ==
        CASE type = "string" -> IsStringValue(v)
          [] type = "strings" ->
               /\ v[1] = "["
               /\ \A i \in 2..(Len(v) - 1) : IsString(v[i]) \/ v[i] = ","
          [] type = "array" -> v[1] = "["
          [] type = "object" -> IsObjectValue(v)
          [] OTHER -> FALSE
      toolInput == get(members(data), "tool_input")
  IN /\ IsObjectValue(data)
     /\ IsStringValue(get(members(data), "action"))
     /\ Unquote(get(members(data), "action")[1]) \in validActions
     /\ \/ toolInput = Undefined
        \/ /\ IsObjectValue(toolInput)
           /\ \A i \in 1..Len(ToolInputShape) :
                \/ get(members(toolInput), ToolInputShape[i].key) = Undefined
                \/ HasType(get(members(toolInput), ToolInputShape[i].key),
                           ToolInputShape[i].type)
     /\ get(members(data), "rationale") # Undefined
          => IsStringValue(get(members(data), "rationale"))

\* the known members of tool_input from field i of the shape on
RECURSIVE shapedMembers(_, _)
shapedMembers(tms, i) ==
  IF i > Len(ToolInputShape) THEN <<>>
  ELSE (IF get(tms, ToolInputShape[i].key) = Undefined THEN <<>>
        ELSE <<[key |-> ToolInputShape[i].key,
                value |-> get(tms, ToolInputShape[i].key)]>>)
         \o shapedMembers(tms, i + 1)

\* what DecisionSchema.parse returns for data it accepts: the members in
\* the order of the schema, unknown keys stripped
schemaParse(data) ==
  LET ms == members(data)
  IN stringify(
       <<[key |-> "action", value |-> get(ms, "action")]>>
         \o (IF get(ms, "tool_input") = Undefined THEN <<>>
             ELSE <<[key |-> "tool_input",
                     value |-> stringify(
                       shapedMembers(members(get(ms, "tool_input")), 1))]>>)
         \o (IF get(ms, "rationale") = Undefined THEN <<>>
             ELSE <<[key |-> "rationale", value |-> get(ms, "rationale")]>>))

(***************************************************************************)
(* State of one run of runCodingAgent.                                     *)
(***************************************************************************)
VARIABLES
  pc,            \* position in runCodingAgent
  userGoal, maxSteps, caps,   \* run configuration
  tracer, initialized,        \* observability module state
  step, writes, cmds,         \* loop variable and resource counters
  transcript,                 \* MessageArray
  totalCalls,                 \* global token statistics (api-calls)
  decision,                   \* decoded Decision of the current step
  result,                     \* value returned by runCodingAgent
  writeExecs, cmdExecs,       \* executions of write_patch / run_cmd
  lastTool,                   \* what the handler of the last step did
  lastCalls,                  \* the model calls the last operation executed
  rawContent, decoded,        \* a response content and its decoding
  callPc,                     \* position in makeAICall
  maxRetries, provider,       \* options of the call
  attempt,                    \* loop variable of makeAICall
  caught,                     \* the error caught in the current attempt
  waits,                      \* backoff sleeps performed, in ms
  response,                   \* what makeAICall returned or threw
  messages,                   \* the message array makeAICall is given
  truncateTranscript,         \* option of the call
  processedMessages,          \* local of makeAICall
  sent,                       \* system and messages of the last provider call
  pending                     \* requests of timed-out attempts not yet settled

agentVars ==
  <<pc, userGoal, maxSteps, caps, tracer, initialized, step, writes, cmds,
    transcript, totalCalls, decision, result, writeExecs, cmdExecs,
    lastTool, lastCalls>>

decodeVars == <<rawContent, decoded>>

callVars ==
  <<callPc, maxRetries, provider, attempt, caught, waits, response, messages,
    truncateTranscript, processedMessages, sent, pending>>

VARIABLES
  fbPc,          \* position in the fallback of the catch block of makeAICall
  fbPath,        \* "no_object": NoObjectGeneratedError; "ollama": generateText
  generatedText, \* error.text, or the text generateText returned
  jsonText,      \* the text handed to repairMalformedJSON
  parsedObject,  \* what JSON.parse returned, repaired on the Ollama path
  validatedObject, \* what schema.parse returned
  repairArgument \* the object handed to repairDecisionObject, after the call

fallbackVars ==
  <<fbPc, fbPath, generatedText, jsonText, parsedObject, validatedObject,
    repairArgument>>

VARIABLES
  planArgs,      \* the arguments of a call of create_plan
  plan           \* the ExecutionPlan the call returned

planVars == <<planArgs, plan>>

vars == <<agentVars, decodeVars, callVars, fallbackVars, planVars>>

Goals == {"List files", "Create a simple HTML page"}

taskVerbs ==
  {"implement", "create", "build", "add", "update", "modify", "change",
   "fix", "refactor", "improve", "feature", "functionality"}

isComplexTaskByLength(goal) == Len(goal) > 30

isComplexTask(goal) ==
  \/ Len(goal) > 30
  \/ \E verb \in taskVerbs : includes(toLowerCase(goal), verb)

ComplexGoals == {goal \in Goals : isComplexTask(goal)}

Msg(role, text) == [role |-> role, content |-> text]

NoDecision == [action |-> "none", tool_input |-> Absent, rationale |-> "none"]
NoResult ==
  [kind |-> "none", steps |-> 0, message |-> "", hasTokenUsage |-> FALSE,
   fatal |-> FALSE, error |-> NoError]
NoTool == [action |-> "none", outcome |-> "none"]
NoCalls ==
  [decisionThrew |-> FALSE, schemaError |-> FALSE, lastThrew |-> FALSE]

\* the value runCodingAgent returns; hasTokenUsage: it carries
\* tokenUsage: getTokenStats().  The counters themselves are advanced inside
\* makeAICall, which SpecCall follows; a run resets and reports them.
\* the message of the returned value, by the return statement it comes from
ResultMessage(kind) ==
  CASE kind = "fatal_schema_error" -> "Fatal schema error"
    [] kind = "ai_call_failed" -> "AI API call failed at step"
    [] kind = "summary_failed" ->
         "Task completed in steps. Summary generation failed"
    [] kind = "final_answer" -> "{\"summary\":\"\"}"
    [] kind = "max_steps" -> "Max steps reached without finalization."
    [] OTHER -> ""

Return(kind, steps, hasUsage, fatal, error) ==
  [kind |-> kind, steps |-> steps, message |-> ResultMessage(kind),
   hasTokenUsage |-> hasUsage, fatal |-> fatal, error |-> error]

NoCaught == [error |-> NoError, hasText |-> FALSE, repairable |-> FALSE]
NoResponse == [status |-> "none", via |-> "none", error |-> NoError]
NoSent == [via |-> "none", system |-> "", messages |-> <<>>]

\* no response is being decoded
DecodeIdle ==
  /\ rawContent = EmptyContent
  /\ decoded = NoDecision

\* no call of makeAICall is being followed
CallIdle ==
  /\ callPc = "idle"
  /\ maxRetries = 0
  /\ provider = "openai"
  /\ attempt = 0
  /\ caught = NoCaught
  /\ waits = <<>>
  /\ response = NoResponse
  /\ messages = <<>>
  /\ truncateTranscript = FALSE
  /\ processedMessages = <<>>
  /\ sent = NoSent
  /\ pending = 0

\* an optional argument: passed with a value, or left out
Passed(value) == [passed |-> TRUE, value |-> value]
NotPassed == [passed |-> FALSE, value |-> ""]

NoPlanArgs ==
  [planSteps |-> <<>>, projectContext |-> NotPassed, userGoal |-> NotPassed]
NoPlan ==
  [created |-> FALSE, steps |-> <<>>, projectContext |-> NotPassed,
   userGoal |-> ""]

\* no call of create_plan is being followed
PlanIdle ==
  /\ planArgs = NoPlanArgs
  /\ plan = NoPlan

\* no fallback of makeAICall is being followed
FallbackIdle ==
  /\ fbPc = "idle"
  /\ fbPath = "none"
  /\ generatedText = <<>>
  /\ jsonText = NoJson
  /\ parsedObject = Undefined
  /\ validatedObject = Undefined
  /\ repairArgument = Undefined

Init ==
  /\ FallbackIdle
  /\ PlanIdle
  /\ pc = "start"
  /\ userGoal \in Goals
  /\ maxSteps \in 0..MaxSteps
  /\ caps \in {[maxWrites |-> n, maxCmds |-> n] : n \in 0..MaxCap}
  /\ tracer \in BOOLEAN
  /\ initialized = tracer
  /\ step = 0
  /\ writes = 0
  /\ cmds = 0
  /\ transcript = <<>>
  /\ totalCalls \in 0..1
  /\ decision = NoDecision
  /\ result = NoResult
  /\ writeExecs = 0
  /\ cmdExecs = 0
  /\ lastTool = NoTool
  /\ lastCalls = NoCalls
  /\ DecodeIdle
  /\ CallIdle

(***************************************************************************)
(* withSpan(Outcomes): the possible sequences of executions of fn, each    *)
(* execution having an outcome of Outcomes.  With a tracer, an execution   *)
(* that throws inside the span is followed by a second execution in the    *)
(* catch block around startActiveSpan.                                     *)
(***************************************************************************)
withSpan(Outcomes) ==
  IF ~tracer THEN {<<r>> : r \in Outcomes}
  ELSE IF ~initialized THEN {<<r>> : r \in Outcomes}
  ELSE {<<r>> : r \in {o \in Outcomes : ~o.threw}}
         \cup {<<r1, r2>> : r1 \in {o \in Outcomes : o.threw},
                            r2 \in Outcomes}

Last(runs) == runs[Len(runs)]

\* a span is started around fn: there is a tracer and it is initialized
spanStarted == tracer /\ initialized

(***************************************************************************)
(* Outcomes of a model call (makeAICall) and of the tools.                 *)
(***************************************************************************)
AIReturned(c) ==
  [threw |-> FALSE, content |-> c, error |-> NoError]
AIThrew(e) ==
  [threw |-> TRUE, content |-> EmptyContent, error |-> e]

\* the responses decision calls are given: every kind of content, every
\* action with its tool_input, some actions without it, wrapped payloads.
\* A tool_input, when present, is an object: makeAICall returns only what
\* passed schema.parse, and DecisionSchema wants an object there.
Representative(v) ==
  IF v.properties.present
    THEN v.action = Absent /\ v.properties.tool_input = "full"
  ELSE \/ v.tool_input = "full"
       \/ /\ v.tool_input = Absent
          /\ v.action \in {Absent, "read_files", "final_answer"}
       \/ /\ v.tool_input = "empty"
          /\ v.action \in {"generate_expression", "generate_translations",
                            "generate_form_json"}

Responses ==
  {c \in Contents :
     \/ c.kind # "json"
     \/ c.value.type # "object"
     \/ Representative(c.value)}

DecisionOutcomes ==
  {AIReturned(c) : c \in Responses}
    \cup {AIThrew(e) :
            e \in {TimeoutError, TransientError, AuthError, SchemaRejected}}

\* model calls whose content the agent does not decode itself
AIOutcomes ==
  {AIReturned(JsonContent([type |-> "array"]))}
    \cup {AIThrew(e) : e \in {TimeoutError, SchemaRejected}}

ToolOutcomes == {[threw |-> FALSE], [threw |-> TRUE]}

\* stands for the runs of a call that is not reached
NotRun == <<[threw |-> FALSE]>>

SchemaErrorIn(runs) ==
  \E i \in 1..Len(runs) : runs[i].threw /\ runs[i].error.kind = "schema"

\* the model calls an operation executed, for the properties below
CallsOf(runs, isDecision) ==
  [decisionThrew |-> isDecision /\ \E i \in 1..Len(runs) : runs[i].threw,
   schemaError |-> SchemaErrorIn(runs),
   lastThrew |-> runs # <<>> /\ runs[Len(runs)].threw]

(***************************************************************************)
(* Tool handlers.  A handler yields                                        *)
(*   outcome : "returned", "threw" (an exception leaves the handler) or    *)
(*             "exited" (process.exit inside the tool),                    *)
(*   push    : the entries it appended to the transcript,                  *)
(*   value   : the counter value it returns (write_patch, run_cmd),        *)
(*   execs   : how often the tool itself was executed,                     *)
(*   tool    : what the tool reported.                                     *)
(***************************************************************************)
Handler(outcome, push, value, execs, tool) ==
  [outcome |-> outcome, push |-> push, value |-> value, execs |-> execs,
   tool |-> tool]

Assistant(text) == Msg("assistant", text)

pushOverLast(t, entries) == SubSeq(t, 1, Len(t) - 1) \o entries

\* transcript.push(...entries)
push(t, entries) == t \o entries

CapReachedStrict(count, cap) == count > cap

CapReached(count, cap) == count >= cap

NewCountOnSuccess(count, succeeded) ==
  IF succeeded THEN count + 1 ELSE count

NewCount(count, succeeded) == count + 1

\* files_written is a number, so Array.isArray(out.files_written) is false
writtenFiles(out) == <<>>

handleReadFiles(runs) ==
  IF Last(runs).threw
    THEN Handler("threw", <<>>, 0, Len(runs), "threw")
    ELSE Handler("returned",
                 <<Assistant("read_files:")>>
                   \o [i \in 1..Last(runs).files |-> Assistant("file:")],
                 0, Len(runs), "ok")

handleSearchRepo(runs) ==
  IF Last(runs).threw
    THEN Handler("threw", <<>>, 0, Len(runs), "threw")
    ELSE Handler("returned", <<Assistant("search_repo:")>>, 0, Len(runs),
                 "ok")

handleWritePatch(count, runs) ==
  IF CapReached(count, caps.maxWrites)
    THEN Handler("returned",
                 <<Assistant("write_patch:ERROR: write cap exceeded")>>,
                 count, 0, "capped")
  ELSE IF Last(runs).threw
    THEN Handler("threw", <<>>, count, Len(runs), "threw")
  ELSE Handler("returned",
               [i \in 1..Len(writtenFiles(Last(runs))) |->
                  Assistant("validation_errors:")]
                 \o <<Assistant(IF Last(runs).success
                                  THEN "write_patch:{success:true}"
                                  ELSE "write_patch:{success:false}")>>,
               NewCount(count, Last(runs).success), Len(runs),
               IF Last(runs).success THEN "ok" ELSE "failed")

\* run_cmd catches every error of the child process and reports ok: false
handleRunCmd(count, out, isTestCmd) ==
  IF CapReached(count, caps.maxCmds)
    THEN Handler("returned",
                 <<Assistant("run_cmd:ERROR: command cap exceeded")>>,
                 count, 0, "capped")
  ELSE Handler("returned",
               <<Assistant(IF out.ok THEN "run_cmd:{ok:true}"
                                     ELSE "run_cmd:{ok:false}")>>
                 \o (IF isTestCmd /\ out.ok
                       THEN <<Assistant("Tests passed.")>> ELSE <<>>),
               NewCount(count, out.ok), 1,
               IF out.ok THEN "ok" ELSE "failed")

handleEvaluateWork(runs) ==
  Handler("returned",
          <<Assistant("evaluate_work:"), Assistant("evaluation_summary:")>>,
          0, Len(runs), IF Last(runs).threw THEN "default" ELSE "ok")

handleCreatePlanUnrecorded(aiRuns, basicRuns) ==
  Handler("returned", <<>>, 0, 0, "ok")

\* AI-powered planning when the transcript holds a non-blank user goal,
\* basic planning otherwise; any error gives the default plan
handleCreatePlan(aiRuns, basicRuns) ==
  Handler("returned",
          <<Assistant("create_plan:"), Assistant("plan_summary:")>>,
          0,
          IF userGoal # "" THEN Len(aiRuns) ELSE Len(basicRuns),
          IF userGoal # ""
            THEN (IF Last(aiRuns).threw THEN "default" ELSE "ok")
            ELSE (IF Last(basicRuns).threw THEN "default" ELSE "ok"))

\* model calls handleCreatePlan executed
createPlanCalls(aiRuns) == IF userGoal # "" THEN aiRuns ELSE <<>>

handleAnalyzeProject(basicRuns, aiRuns, fallbackRuns) ==
  Handler("returned",
          <<Assistant("analyze_project:"), Assistant("analysis_summary:")>>,
          0, Len(basicRuns),
          IF ~Last(basicRuns).threw /\ ~Last(aiRuns).threw THEN "ok"
          ELSE IF ~Last(fallbackRuns).threw THEN "fallback"
          ELSE "default")

\* model calls handleAnalyzeProject executed
analyzeProjectCalls(basicRuns, aiRuns) ==
  IF Last(basicRuns).threw THEN <<>> ELSE aiRuns

\* the AI analysis runs after a basic analysis that returned, the fallback
\* analysis after an error of either
AnalysisRuns(basicRuns) ==
  IF Last(basicRuns).threw THEN {NotRun} ELSE withSpan(AIOutcomes)

FallbackRuns(basicRuns, aiRuns) ==
  IF Last(basicRuns).threw \/ Last(aiRuns).threw
    THEN withSpan(ToolOutcomes) ELSE {NotRun}

handleValidateFormJson(d, out) ==
  IF d.action # "validate_form_json" \/ ~Truthy(d.tool_input)
    THEN Handler("threw", <<>>, 0, 0, "threw")
    ELSE Handler("returned", <<Assistant("validate_form_json:" \o out)>>, 0,
                 1, out)

\* generateExpression, generateTranslations and generateFormJson exit the
\* process on a fatal schema error and rethrow every other error; the
\* handler turns a rethrown error into a transcript entry
handleGenerate(d, call) ==
  IF d.tool_input # "full"
    THEN Handler("threw", <<>>, 0, 0, "threw")
  ELSE IF ~call.threw
    THEN Handler("returned", <<Assistant(d.action \o ":ok")>>, 0, 1, "ok")
  ELSE IF call.error \in FatalErrors
    THEN Handler("exited", <<>>, 0, 1, "exited")
  ELSE Handler("returned", <<Assistant(d.action \o ":failed")>>, 0, 1,
               "failed")

\* generateFormJson may call generateTranslations after its own model call;
\* a translation error is logged and ignored unless it is fatal
handleGenerateFormJson(d, call, translation) ==
  IF d.tool_input = "full" /\ ~call.threw /\ translation.threw
     /\ translation.error \in FatalErrors
    THEN Handler("exited", <<>>, 0, 1, "exited")
    ELSE handleGenerate(d, call)

(***************************************************************************)
(* runCodingAgent                                                          *)
(***************************************************************************)
MaxStepsResult ==
  Return("max_steps", maxSteps, FALSE, FALSE, NoError)

\* resetTokenStats and the declarations before the planning phase
StartRun ==
  /\ pc = "start"
  /\ totalCalls' = 0
  /\ writes' = 0
  /\ cmds' = 0
  /\ transcript' = <<Msg("system", "prompt"), Msg("user", userGoal)>>
  /\ pc' = "planning"
  /\ UNCHANGED <<userGoal, maxSteps, caps, tracer, initialized, step,
                 decision, result, writeExecs, cmdExecs, lastTool, lastCalls,
                 decodeVars, callVars, fallbackVars, planVars>>

\* where the loop goes after the planning phase and after each step
EnterStep(k) ==
  IF k <= maxSteps
    THEN /\ pc' = "decide"
         /\ step' = k
         /\ result' = result
    ELSE /\ pc' = "returned"
         /\ step' = step
         /\ result' = MaxStepsResult

\* project analysis, then a plan when the goal is complex
PlanningPhase ==
  /\ pc = "planning"
  /\ \E basicRuns \in withSpan(ToolOutcomes),
        planRuns \in IF userGoal \in ComplexGoals THEN withSpan(AIOutcomes)
                                                   ELSE {NotRun} :
      \E aiRuns \in AnalysisRuns(basicRuns) :
       \E fallbackRuns \in FallbackRuns(basicRuns, aiRuns) :
       LET analysis == handleAnalyzeProject(basicRuns, aiRuns, fallbackRuns)
           analysisCalls == analyzeProjectCalls(basicRuns, aiRuns)
           planOut == handleCreatePlan(planRuns, NotRun)
           planCalls ==
             IF userGoal \in ComplexGoals
               THEN createPlanCalls(planRuns) ELSE <<>>
       IN /\ transcript' =
               push(push(transcript, analysis.push),
                    IF userGoal \in ComplexGoals THEN planOut.push ELSE <<>>)
          /\ lastCalls' = CallsOf(analysisCalls \o planCalls, FALSE)
  /\ EnterStep(1)
  /\ UNCHANGED <<userGoal, maxSteps, caps, tracer, initialized, writes,
                 cmds, totalCalls, decision, writeExecs, cmdExecs, lastTool,
                 decodeVars, callVars, fallbackVars, planVars>>

FatalSchemaErrorResult(e) ==
  Return("fatal_schema_error", step, TRUE, TRUE, e)

AICallFailedResult(e) ==
  Return("ai_call_failed", step, TRUE, FALSE, e)

\* what a step does with the outcome r of its decision call: the catch
\* block around the call, or the decoding of the response
AfterDecisionCall(r) ==
  /\ IF r.threw
       THEN /\ pc' = "returned"
            /\ result' =
                 IF r.error \in FatalErrors
                   THEN FatalSchemaErrorResult(r.error)
                   ELSE AICallFailedResult(r.error)
            /\ decision' = decision
       ELSE /\ decision' = DecodeDecision(RawContentOf(r.content))
            /\ pc' = IF decision'.action = "final_answer"
                       THEN "summary" ELSE "dispatch"
            /\ result' = result

\* the decision call of a step, in withSpan("ai.call"): when the call throws
\* inside a started span, withSpan executes it again
RequestDecision ==
  /\ pc = "decide"
  /\ \E r \in DecisionOutcomes :
       /\ lastCalls' = CallsOf(<<r>>, TRUE)
       /\ IF r.threw /\ spanStarted
            THEN /\ pc' = "decide_again"
                 /\ UNCHANGED <<result, decision>>
            ELSE AfterDecisionCall(r)
  /\ lastTool' = NoTool
  /\ UNCHANGED <<userGoal, maxSteps, caps, tracer, initialized, step,
                 writes, cmds, transcript, totalCalls, writeExecs, cmdExecs,
                 decodeVars, callVars, fallbackVars, planVars>>

\* the second execution of the decision call, in the catch block of withSpan
RequestDecisionAgain ==
  /\ pc = "decide_again"
  /\ \E r \in DecisionOutcomes :
       /\ lastCalls' = CallsOf(<<r>>, TRUE)
       /\ AfterDecisionCall(r)
  /\ UNCHANGED <<userGoal, maxSteps, caps, tracer, initialized, step,
                 writes, cmds, transcript, totalCalls, writeExecs, cmdExecs,
                 lastTool, decodeVars, callVars, fallbackVars, planVars>>

FinalAnswerResultNextStep ==
  Return("final_answer", step + 1, FALSE, FALSE, NoError)

FinalAnswerResult == Return("final_answer", step, FALSE, FALSE, NoError)

SummaryFailedResultCapped(e) == MaxStepsResult

\* catch (summaryError): the run still completes, with a default message
SummaryFailedResult(e) == Return("summary_failed", step, FALSE, FALSE, e)

\* the summary call after a final_answer decision
GenerateSummary ==
  /\ pc = "summary"
  /\ \E runs \in withSpan(AIOutcomes) :
       /\ lastCalls' = CallsOf(runs, FALSE)
       /\ result' =
            IF Last(runs).threw
              THEN SummaryFailedResult(Last(runs).error)
              ELSE FinalAnswerResult
  /\ pc' = "returned"
  \* decision is scoped to the loop body
  /\ decision' = NoDecision
  /\ UNCHANGED <<userGoal, maxSteps, caps, tracer, initialized, step,
                 writes, cmds, transcript, totalCalls, writeExecs, cmdExecs,
                 lastTool, decodeVars, callVars, fallbackVars, planVars>>

(***************************************************************************)
(* Dispatch of a non-terminal decision: the try/catch around the handler   *)
(* call in the step loop.                                                  *)
(***************************************************************************)
LoopTryCatchRethrows(h) == h.outcome

\* what the try/catch makes of the handler's outcome
LoopTryCatch(h) ==
  IF h.outcome = "threw" THEN "caught" ELSE h.outcome

ExceptionResult == Return("exception", step, FALSE, FALSE, NoError)

\* h: the handler's outcome, calls: the model calls the handler executed
FinishStep(h, calls) ==
  /\ transcript' = push(transcript, h.push)
  /\ writes' = IF decision.action = "write_patch" /\ h.outcome = "returned"
                 THEN h.value ELSE writes
  /\ cmds' = IF decision.action = "run_cmd" /\ h.outcome = "returned"
               THEN h.value ELSE cmds
  /\ writeExecs' = IF decision.action = "write_patch"
                     THEN writeExecs + h.execs ELSE writeExecs
  /\ cmdExecs' = IF decision.action = "run_cmd"
                   THEN cmdExecs + h.execs ELSE cmdExecs
  /\ lastCalls' = CallsOf(calls, FALSE)
  /\ lastTool' = [action |-> decision.action, outcome |-> h.tool]
  /\ CASE LoopTryCatch(h) \in {"returned", "caught"} -> EnterStep(step + 1)
        [] LoopTryCatch(h) = "exited" ->
             /\ pc' = "exited"
             /\ step' = step
             /\ result' = result
        [] OTHER ->
             /\ pc' = "returned"
             /\ step' = step
             /\ result' = ExceptionResult
  \* decision is scoped to the loop body
  /\ decision' = NoDecision
  /\ UNCHANGED <<userGoal, maxSteps, caps, tracer, initialized, totalCalls,
                 decodeVars, callVars, fallbackVars, planVars>>

ReadFilesOutcomes ==
  {[threw |-> TRUE, files |-> 0]}
    \cup {[threw |-> FALSE, files |-> n] : n \in 0..1}

WritePatchOutcomes ==
  {[threw |-> TRUE, success |-> FALSE], [threw |-> FALSE, success |-> TRUE],
   [threw |-> FALSE, success |-> FALSE]}

HandleReadFiles ==
  /\ pc = "dispatch"
  /\ decision.action = "read_files"
  /\ \E runs \in withSpan(ReadFilesOutcomes) :
       FinishStep(handleReadFiles(runs), <<>>)

HandleSearchRepo ==
  /\ pc = "dispatch"
  /\ decision.action = "search_repo"
  /\ \E runs \in withSpan(ToolOutcomes) :
       FinishStep(handleSearchRepo(runs), <<>>)

HandleWritePatch ==
  /\ pc = "dispatch"
  /\ decision.action = "write_patch"
  /\ \E runs \in withSpan(WritePatchOutcomes) :
       FinishStep(handleWritePatch(writes, runs), <<>>)

HandleRunCmd ==
  /\ pc = "dispatch"
  /\ decision.action = "run_cmd"
  /\ \E ok \in BOOLEAN, isTestCmd \in BOOLEAN :
       FinishStep(handleRunCmd(cmds, [ok |-> ok], isTestCmd), <<>>)

HandleEvaluateWork ==
  /\ pc = "dispatch"
  /\ decision.action = "evaluate_work"
  /\ \E runs \in withSpan(ToolOutcomes) :
       FinishStep(handleEvaluateWork(runs), <<>>)

HandleCreatePlan ==
  /\ pc = "dispatch"
  /\ decision.action = "create_plan"
  /\ \E planRuns \in IF userGoal # "" THEN withSpan(AIOutcomes)
                                         ELSE {NotRun},
        basicRuns \in IF userGoal # "" THEN {NotRun}
                                          ELSE withSpan(ToolOutcomes) :
       FinishStep(handleCreatePlan(planRuns, basicRuns),
                  createPlanCalls(planRuns))

HandleAnalyzeProject ==
  /\ pc = "dispatch"
  /\ decision.action = "analyze_project"
  /\ \E basicRuns \in withSpan(ToolOutcomes) :
       \E aiRuns \in AnalysisRuns(basicRuns) :
         \E fallbackRuns \in FallbackRuns(basicRuns, aiRuns) :
           FinishStep(handleAnalyzeProject(basicRuns, aiRuns, fallbackRuns),
                      analyzeProjectCalls(basicRuns, aiRuns))

HandleValidateFormJson ==
  /\ pc = "dispatch"
  /\ decision.action = "validate_form_json"
  /\ \E out \in {"valid", "invalid", "error"} :
       FinishStep(handleValidateFormJson(decision, out), <<>>)

GenerateCalls(d, call) == IF d.tool_input = "full" THEN <<call>> ELSE <<>>

HandleGenerateExpression ==
  /\ pc = "dispatch"
  /\ decision.action = "generate_expression"
  /\ \E call \in AIOutcomes :
       FinishStep(handleGenerate(decision, call),
                  GenerateCalls(decision, call))

HandleGenerateTranslations ==
  /\ pc = "dispatch"
  /\ decision.action = "generate_translations"
  /\ \E call \in AIOutcomes :
       FinishStep(handleGenerate(decision, call),
                  GenerateCalls(decision, call))

HandleGenerateFormJson ==
  /\ pc = "dispatch"
  /\ decision.action = "generate_form_json"
  /\ \E call \in AIOutcomes, translation \in AIOutcomes :
       FinishStep(handleGenerateFormJson(decision, call, translation),
                  IF decision.tool_input = "full" /\ ~call.threw
                    THEN <<call, translation>>
                    ELSE GenerateCalls(decision, call))

Next ==
  \/ StartRun
  \/ PlanningPhase
  \/ RequestDecision
  \/ RequestDecisionAgain
  \/ GenerateSummary
  \/ HandleReadFiles
  \/ HandleSearchRepo
  \/ HandleWritePatch
  \/ HandleRunCmd
  \/ HandleEvaluateWork
  \/ HandleCreatePlan
  \/ HandleAnalyzeProject
  \/ HandleValidateFormJson
  \/ HandleGenerateExpression
  \/ HandleGenerateTranslations
  \/ HandleGenerateFormJson

Spec == Init /\ [][Next]_vars

(***************************************************************************)
(* The decoding of one response, for every content of Contents.            *)
(***************************************************************************)
\* no run of runCodingAgent is being followed
AgentIdle ==
  /\ pc = "idle"
  /\ userGoal = "List files"
  /\ maxSteps = 0
  /\ caps = [maxWrites |-> 0, maxCmds |-> 0]
  /\ tracer = FALSE
  /\ initialized = FALSE
  /\ step = 0
  /\ writes = 0
  /\ cmds = 0
  /\ transcript = <<>>
  /\ decision = NoDecision
  /\ result = NoResult
  /\ writeExecs = 0
  /\ cmdExecs = 0
  /\ lastTool = NoTool
  /\ lastCalls = NoCalls

InitDecode ==
  /\ AgentIdle
  /\ CallIdle
  /\ FallbackIdle
  /\ PlanIdle
  /\ totalCalls = 0
  /\ rawContent \in Contents
  /\ decoded = NoDecision

\* rawContent = content || "{}", JSON.parse, the properties unwrapping and
\* validateDecision
Decode ==
  /\ pc = "idle"
  /\ callPc = "idle"
  /\ fbPc \in {"idle", "returned"}
  /\ decoded = NoDecision
  /\ decoded' = DecodeDecision(RawContentOf(rawContent))
  /\ UNCHANGED <<agentVars, callVars, fallbackVars, planVars, rawContent>>

NextDecode == Decode

SpecDecode == InitDecode /\ [][NextDecode]_vars

(***************************************************************************)
(* makeAICall: up to maxRetries attempts of generateObject raced against   *)
(* the timeout, the repair of a NoObjectGeneratedError and the Ollama      *)
(* generateText fallback on the last attempt, exponential backoff between  *)
(* attempts.                                                               *)
(***************************************************************************)
BackoffBaseMs == 1000
BackoffCapMs == 10000

RECURSIVE Pow2(_)
Pow2(n) == IF n <= 0 THEN 1 ELSE 2 * Pow2(n - 1)

Min(a, b) == IF a <= b THEN a ELSE b

waitTimeUncapped(n) == BackoffBaseMs * Pow2(n - 1)

\* Math.min(1000 * Math.pow(2, attempt - 1), 10000)
waitTime(n) == Min(BackoffBaseMs * Pow2(n - 1), BackoffCapMs)

Providers == {"openai", "ollama"}

\* NoObjectGeneratedError.isInstance(error)
isNoObjectGeneratedError(e) == e.name = "AI_NoObjectGeneratedError"

ollamaErrorPatterns == {"invalid json schema", "invalid format", "ollamaerror"}

\* the errors whose String(error), lowercased, includes such a pattern
OllamaPatternErrors ==
  {e \in Errors :
     \E p \in ollamaErrorPatterns : includes(toLowerCase(ErrorString(e)), p)}

isOllamaSchemaError(e) ==
  /\ provider = "ollama"
  /\ e \in OllamaPatternErrors

Returned(via) == [status |-> "returned", via |-> via, error |-> NoError]
Threw(e) == [status |-> "threw", via |-> "none", error |-> e]

AllRetriesFailed ==
  [name |-> "Error", message |-> "All retry attempts failed",
   kind |-> "exhausted"]

TruncateThreshold == 20
KeepLast == 15

\* the transcript of a run after n entries: the system message, the user
\* goal, then what the handlers pushed
TranscriptOf(n) ==
  [i \in 1..n |->
     IF i = 1 THEN Msg("system", "prompt")
     ELSE IF i = 2 THEN Msg("user", "goal")
     ELSE Msg("assistant", "entry " \o ToString(i))]

sliceShort(s, n) ==
  IF Len(s) < n THEN s ELSE SubSeq(s, Len(s) - n + 2, Len(s))

\* s.slice(-n)
slice(s, n) ==
  IF Len(s) <= n THEN s ELSE SubSeq(s, Len(s) - n + 1, Len(s))

TruncationInPlace(msgs, truncate) ==
  LET kept == IF truncate /\ Len(msgs) > TruncateThreshold
                THEN <<msgs[1], msgs[2]>> \o slice(msgs, KeepLast)
                ELSE msgs
  IN [messages |-> kept, processedMessages |-> kept]

\* let processedMessages = messages; if (truncateTranscript &&
\* messages.length > 20) processedMessages = [messages[0], messages[1],
\* ...messages.slice(-15)]: the two arrays after these statements
Truncation(msgs, truncate) ==
  [messages |-> msgs,
   processedMessages |->
     IF truncate /\ Len(msgs) > TruncateThreshold
       THEN <<msgs[1], msgs[2]>> \o slice(msgs, KeepLast)
       ELSE msgs]

IsSystem(m) == m.role = "system"

\* processedMessages.find((m) => m.role === "system")?.content
systemContent(ms) ==
  IF \E i \in 1..Len(ms) : IsSystem(ms[i])
    THEN ms[CHOOSE i \in 1..Len(ms) :
              IsSystem(ms[i]) /\ \A j \in 1..(i - 1) : ~IsSystem(ms[j])].content
    ELSE ""

\* processedMessages.filter((m) => m.role !== "system")
userMessages(ms) == SelectSeq(ms, LAMBDA m : ~IsSystem(m))

jsonInstruction == " CRITICAL: Your response must be ONLY valid JSON."

\* the system and messages parameters of generateObject
generateObjectParams(ms) ==
  [via |-> "generateObject", system |-> systemContent(ms),
   messages |-> userMessages(ms)]

\* the system and messages parameters of the generateText fallback
generateTextParams(ms) ==
  [via |-> "generateText",
   system |-> IF systemContent(ms) # ""
                THEN systemContent(ms) \o jsonInstruction
                ELSE "You are a JSON generator." \o jsonInstruction,
   messages |-> userMessages(ms)]

InitCall ==
  /\ AgentIdle
  /\ DecodeIdle
  /\ FallbackIdle
  /\ PlanIdle
  /\ totalCalls \in 0..1
  /\ callPc = "entry"
  /\ maxRetries \in 0..MaxRetries
  /\ provider \in Providers
  /\ attempt = 1
  /\ caught = NoCaught
  /\ waits = <<>>
  /\ response = NoResponse
  /\ messages \in
       {TranscriptOf(n) : n \in {2} \cup (TruncateThreshold - 1)..MaxMessages}
  /\ truncateTranscript \in BOOLEAN
  /\ processedMessages = <<>>
  /\ sent = NoSent
  /\ pending = 0

\* the statements of makeAICall before the retry loop
EnterCall ==
  /\ callPc = "entry"
  /\ messages' = Truncation(messages, truncateTranscript).messages
  /\ processedMessages' =
       Truncation(messages, truncateTranscript).processedMessages
  /\ callPc' = "loop"
  /\ UNCHANGED <<agentVars, decodeVars, fallbackVars, planVars, maxRetries, provider, attempt,
                 caught, waits, response, truncateTranscript, sent,
                 pending>>

\* for (let attempt = 1; attempt <= maxRetries; attempt++), and the throw
\* after the loop
LoopTest ==
  /\ callPc = "loop"
  /\ IF attempt <= maxRetries
       THEN /\ callPc' = "attempt"
            /\ response' = response
       ELSE /\ callPc' = "threw"
            /\ response' = Threw(AllRetriesFailed)
  /\ UNCHANGED <<agentVars, decodeVars, fallbackVars, planVars, maxRetries, provider, attempt,
                 caught, waits, messages, truncateTranscript,
                 processedMessages, sent, pending>>

\* generateObject raced against the timeout; token counters on success.
\* When the timer wins the race the request is left running: nothing
\* cancels it
Attempt ==
  /\ callPc = "attempt"
  /\ \/ \E usage \in BOOLEAN :
          /\ callPc' = "returned"
          /\ response' = Returned("generateObject")
          /\ totalCalls' = IF usage THEN totalCalls + 1 ELSE totalCalls
          /\ caught' = caught
          /\ pending' = pending
     \/ \E e \in Errors, hasText \in BOOLEAN, repairable \in BOOLEAN :
          /\ hasText => isNoObjectGeneratedError(e)
          /\ repairable => hasText
          /\ callPc' = "catch"
          /\ caught' = [error |-> e, hasText |-> hasText,
                        repairable |-> repairable]
          /\ pending' = IF e = TimeoutError THEN pending + 1 ELSE pending
          /\ UNCHANGED <<response, totalCalls>>
  /\ sent' = generateObjectParams(processedMessages)
  /\ UNCHANGED <<pc, userGoal, maxSteps, caps, tracer, initialized, step,
                 writes, cmds, transcript, decision, result, writeExecs,
                 cmdExecs, lastTool, lastCalls, decodeVars, fallbackVars, planVars,
                 maxRetries,
                 provider, attempt, waits, messages, truncateTranscript,
                 processedMessages>>

RethrowNever(n) == FALSE

\* if (attempt === maxRetries) throw error
RethrowOnFinalAttempt(n) == n = maxRetries

textFallbackOnAnyAttempt(c, n) == c.hasText

\* if (error.text && attempt === maxRetries)
textFallback(c, n) == c.hasText /\ n = maxRetries

generateTextFallbackOnAnyAttempt(e, n) == isOllamaSchemaError(e)

\* if (isOllamaSchemaError && attempt === maxRetries)
generateTextFallback(e, n) == isOllamaSchemaError(e) /\ n = maxRetries

\* the catch block of an attempt.  caught.repairable: the generated text
\* repairs into an object of the schema; fallbackOk: the generateText
\* fallback returns a text that does
CatchBlock ==
  /\ callPc = "catch"
  /\ \E fallbackOk \in BOOLEAN, usage \in BOOLEAN :
       IF /\ isNoObjectGeneratedError(caught.error)
          /\ textFallback(caught, attempt)
          /\ caught.repairable
         THEN /\ callPc' = "returned"
              /\ response' = Returned("repair")
              /\ UNCHANGED <<totalCalls, attempt, waits>>
       ELSE IF /\ ~isNoObjectGeneratedError(caught.error)
               /\ generateTextFallback(caught.error, attempt)
               /\ fallbackOk
         THEN /\ callPc' = "returned"
              /\ response' = Returned("generateText")
              /\ totalCalls' = IF usage THEN totalCalls + 1 ELSE totalCalls
              /\ UNCHANGED <<attempt, waits>>
       ELSE IF RethrowOnFinalAttempt(attempt)
         THEN /\ callPc' = "threw"
              /\ response' = Threw(caught.error)
              /\ UNCHANGED <<totalCalls, attempt, waits>>
       ELSE /\ waits' = Append(waits, waitTime(attempt))
            /\ attempt' = attempt + 1
            /\ callPc' = "loop"
            /\ UNCHANGED <<totalCalls, response>>
  /\ sent' = IF /\ ~isNoObjectGeneratedError(caught.error)
                /\ generateTextFallback(caught.error, attempt)
               THEN generateTextParams(processedMessages)
               ELSE sent
  /\ caught' = NoCaught
  /\ UNCHANGED <<pc, userGoal, maxSteps, caps, tracer, initialized, step,
                 writes, cmds, transcript, decision, result, writeExecs,
                 cmdExecs, lastTool, lastCalls, decodeVars, fallbackVars, planVars,
                 maxRetries,
                 provider, messages, truncateTranscript, processedMessages,
                 pending>>

\* the request of an attempt that lost the race against its timer settles;
\* Promise.race has resolved already and ignores it
SettleAbandoned ==
  /\ callPc \in {"loop", "attempt", "catch", "returned", "threw"}
  /\ pending > 0
  /\ pending' = pending - 1
  /\ UNCHANGED <<agentVars, decodeVars, fallbackVars, planVars, callPc, maxRetries,
                 provider, attempt, caught, waits, response, messages,
                 truncateTranscript, processedMessages, sent>>

NextCall ==
  \/ EnterCall
  \/ LoopTest
  \/ Attempt
  \/ CatchBlock
  \/ SettleAbandoned

SpecCall == InitCall /\ [][NextCall]_vars

(***************************************************************************)
(* The fallback of the catch block of makeAICall on the final attempt:     *)
(* on a NoObjectGeneratedError the text of the error is repaired, parsed   *)
(* and validated; on a schema error of Ollama the text generateText        *)
(* returns is trimmed, searched for JSON, repaired, parsed, repaired as a  *)
(* decision and validated.  A failure at any point rethrows the error of   *)
(* the attempt; a success is returned to runCodingAgent, which decodes it. *)
(***************************************************************************)
SP == " "
Prose == <<"Here", SP, "is", SP, "the", SP, "JSON", ":", SP>>
\* prose that names a brace
BraceProse == <<"The", SP, "closing", SP, "}", SP, "was", SP, "missing", ":", SP>>

SearchDecision ==
  <<"{", Q("action"), ":", SP, Q("search_repo"), ",", SP, Q("tool_input"),
    ":", SP, "{", Q("query"), ":", SP, Q("foo"), "}", "}">>
TrailingComma ==
  <<"{", Q("action"), ":", SP, Q("search_repo"), ",", SP, Q("tool_input"),
    ":", SP, "{", Q("query"), ":", SP, Q("foo"), "}", ",", "}">>
MissingAction ==
  <<"{", Q("tool_input"), ":", SP, "{", Q("paths"), ":", SP,
    "[", Q("a.ts"), "]", "}", "}">>

Bodies ==
  {SearchDecision, TrailingComma, MissingAction,
   \* keys without quotes
   <<"{", "action", ":", SP, Q("search_repo"), ",", SP, "tool_input",
     ":", SP, "{", "query", ":", SP, Q("foo"), "}", "}">>,
   \* no action, the parameter at the top level, an unknown key
   <<"{", Q("query"), ":", SP, Q("foo"), ",", SP, Q("note"), ":", SP,
     "true", "}">>,
   \* the action in upper case
   <<"{", Q("action"), ":", SP, Q("SEARCH_REPO"), ",", SP,
     Q("tool_input"), ":", SP, "{", Q("query"), ":", SP, Q("foo"),
     "}", "}">>,
   \* an unknown action
   <<"{", Q("action"), ":", SP, Q("bogus"), ",", SP, Q("tool_input"),
     ":", SP, "{", "}", "}">>,
   \* a parameter beside an empty tool_input
   <<"{", Q("action"), ":", SP, Q("search_repo"), ",", SP,
     Q("tool_input"), ":", SP, "{", "}", ",", SP, Q("query"), ":", SP,
     Q("foo"), "}">>,
   \* an unknown action beside the parameter of read_files
   <<"{", Q("action"), ":", SP, Q("bogus"), ",", SP, Q("tool_input"),
     ":", SP, "{", Q("paths"), ":", SP, "[", Q("a.ts"), "]", "}", "}">>,
   \* tool_input a string
   <<"{", Q("action"), ":", SP, Q("read_files"), ",", SP,
     Q("tool_input"), ":", SP, Q("a.ts"), "}">>,
   \* query an array
   <<"{", Q("action"), ":", SP, Q("search_repo"), ",", SP,
     Q("tool_input"), ":", SP, "{", Q("query"), ":", SP, "[",
     Q("foo"), "]", "}", "}">>,
   \* no tool_input
   <<"{", Q("action"), ":", SP, Q("search_repo"), "}">>,
   \* a final answer
   <<"{", Q("action"), ":", SP, Q("final_answer"), ",", SP,
     Q("rationale"), ":", SP, Q("done"), "}">>,
   \* two trailing commas
   <<"{", Q("action"), ":", SP, Q("final_answer"), ",", ",", "}">>,
   \* a plan whose step lacks the required flag
   <<"{", Q("steps"), ":", SP, "[", "{", Q("step"), ":", SP,
     Q("Optional: run the linter"), "}", "]", "}">>,
   \* a plan with a null step
   <<"{", Q("steps"), ":", SP, "[", "null", "]", "}">>,
   \* an array
   <<"[", Q("a.ts"), "]">>,
   \* no closing brace
   <<"{", Q("action"), ":", SP, Q("final_answer")>>,
   \* no JSON at all
   <<"I", SP, "cannot", SP, "answer">>}

\* a body as it stands, after prose, in a code block, and both, with the
\* whitespace a model puts around its answer
Embeddings(b) ==
  {b,
   Prose \o b,
   BraceProse \o b,
   <<"\n">> \o b \o <<"\n">>,
   <<Fence, "json", "\n">> \o b \o <<"\n", Fence>>,
   Prose \o <<Fence, "\n">> \o b \o <<"\n", Fence, "\n">>}

Texts == UNION {Embeddings(b) : b \in Bodies} \cup {<<>>}

InitFallback ==
  /\ AgentIdle
  /\ CallIdle
  /\ DecodeIdle
  /\ PlanIdle
  /\ totalCalls = 0
  /\ fbPc = "catch"
  /\ fbPath \in {"no_object", "ollama"}
  /\ generatedText \in Texts
  /\ jsonText = NoJson
  /\ parsedObject = Undefined
  /\ validatedObject = Undefined
  /\ repairArgument = Undefined

\* if (error.text && attempt === maxRetries): the text goes to the repair
\* as it is
UseErrorText ==
  /\ fbPc = "catch"
  /\ fbPath = "no_object"
  /\ IF generatedText # <<>>
       THEN fbPc' = "repair" /\ jsonText' = generatedText
       ELSE fbPc' = "threw" /\ jsonText' = jsonText
  /\ UNCHANGED <<agentVars, decodeVars, callVars, planVars, fbPath, generatedText,
                 parsedObject, validatedObject, repairArgument>>

\* textContent = textResponse.text.trim(); jsonText =
\* extractJsonFromText(textContent); if (!jsonText) throw
ExtractJson ==
  /\ fbPc = "catch"
  /\ fbPath = "ollama"
  /\ jsonText' = extractJsonFromText(trim(generatedText))
  /\ fbPc' = IF jsonText' = NoJson THEN "threw" ELSE "repair"
  /\ UNCHANGED <<agentVars, decodeVars, callVars, planVars, fbPath, generatedText,
                 parsedObject, validatedObject, repairArgument>>

\* repairedText = repairMalformedJSON(jsonText); JSON.parse(repairedText)
ParseRepaired ==
  /\ fbPc = "repair"
  /\ \E repairedText \in {repairMalformedJSON(jsonText)} :
       IF ~Parses(repairedText)
         THEN /\ parsedObject' = parsedObject
              /\ fbPc' = "threw"
       ELSE IF fbPath = "ollama"
         THEN /\ parsedObject' = Parsed(repairedText)
              /\ fbPc' = "repair_object"
       \* if (parsedText && Array.isArray(parsedText.steps))
       \*   parsedText = repairPlanSteps(parsedText)
       ELSE \E parsedText \in {repairPlanSteps(Parsed(repairedText))} :
              IF parsedText = TypeErrorThrown
                THEN /\ parsedObject' = Parsed(repairedText)
                     /\ fbPc' = "threw"
                ELSE /\ parsedObject' = parsedText
                     /\ fbPc' = "validate"
  /\ UNCHANGED <<agentVars, decodeVars, callVars, planVars, fbPath, generatedText,
                 jsonText, validatedObject, repairArgument>>

\* if (parsedObject && Array.isArray(parsedObject.steps)) parsedObject =
\* repairPlanSteps(parsedObject); if (parsedObject && typeof parsedObject
\* === "object" && !Array.isArray(parsedObject)) parsedObject =
\* repairDecisionObject(parsedObject)
RepairObject ==
  /\ fbPc = "repair_object"
  /\ \E repaired \in {repairPlanSteps(parsedObject)} :
       IF repaired = TypeErrorThrown
         THEN /\ parsedObject' = parsedObject
              /\ repairArgument' = repairArgument
              /\ fbPc' = "threw"
         ELSE IF IsObjectValue(repaired)
           THEN \E returned \in {repairDecisionObject(repaired)} :
                  /\ parsedObject' = returned
                  /\ repairArgument' = argumentAfterRepair(repaired, returned)
                  /\ fbPc' = "validate"
         ELSE /\ parsedObject' = repaired
              /\ repairArgument' = repairArgument
              /\ fbPc' = "validate"
  /\ UNCHANGED <<agentVars, decodeVars, callVars, planVars, fbPath, generatedText,
                 jsonText, validatedObject>>

\* the parsed decision as the decoder of runCodingAgent takes it
AsParsedValue(v) ==
  JObject(Unquote(get(members(v), "action")[1]),
          IF get(members(v), "tool_input") = Undefined THEN Absent
          ELSE IF get(members(v), "tool_input") = <<"{", "}">> THEN "empty"
          ELSE "full",
          NoProperties)

\* validatedObject = schema.parse(parsedObject); return { choices:
\* [{ message: { content: JSON.stringify(validatedObject) } }] }
ValidateObject ==
  /\ fbPc = "validate"
  /\ IF SchemaAccepts(parsedObject)
       THEN /\ validatedObject' = schemaParse(parsedObject)
            /\ rawContent' = JsonContent(AsParsedValue(validatedObject'))
            /\ fbPc' = "returned"
       ELSE /\ validatedObject' = validatedObject
            /\ rawContent' = rawContent
            /\ fbPc' = "threw"
  /\ UNCHANGED <<agentVars, callVars, planVars, fbPath, generatedText, jsonText,
                 parsedObject, decoded, repairArgument>>

NextFallback ==
  \/ UseErrorText
  \/ ExtractJson
  \/ ParseRepaired
  \/ RepairObject
  \/ ValidateObject
  \/ Decode

SpecFallback == InitFallback /\ [][NextFallback]_vars

(***************************************************************************)
(* create_plan: the plan holds the array of steps it is given and the      *)
(* project context as passed; a user goal that is left out or empty is     *)
(* replaced.  The check of the dependencies only logs, and createdAt is    *)
(* the time of the call.                                                   *)
(***************************************************************************)
MaxPlanSteps == 2

PlanStepValues ==
  {[step |-> "Analyze existing code", required |-> TRUE,
    dependencies |-> <<>>],
   [step |-> "Add tests", required |-> FALSE,
    dependencies |-> <<"step_0">>],
   [step |-> "Write docs", required |-> FALSE,
    dependencies |-> <<"Add tests">>]}

PlanStepLists ==
  UNION {[1..n -> PlanStepValues] : n \in 0..MaxPlanSteps}

OptionalTexts(texts) == {NotPassed} \cup {Passed(t) : t \in texts}

create_planKeepsGoal(planSteps, projectContext, goal) ==
  [created |-> TRUE, steps |-> planSteps, projectContext |-> projectContext,
   userGoal |-> goal.value]

\* steps: planSteps, projectContext, userGoal: userGoal || "Unknown goal"
create_plan(planSteps, projectContext, goal) ==
  [created |-> TRUE, steps |-> planSteps, projectContext |-> projectContext,
   userGoal |-> IF goal.passed /\ goal.value # ""
                  THEN goal.value ELSE "Unknown goal"]

InitPlan ==
  /\ AgentIdle
  /\ CallIdle
  /\ DecodeIdle
  /\ FallbackIdle
  /\ totalCalls = 0
  /\ planArgs \in
       [planSteps : PlanStepLists,
        projectContext : OptionalTexts({"", "TypeScript project"}),
        userGoal : OptionalTexts({"", " ", "Add new feature"})]
  /\ plan = NoPlan

CreatePlan ==
  /\ ~plan.created
  /\ plan' = create_plan(planArgs.planSteps, planArgs.projectContext,
                         planArgs.userGoal)
  /\ UNCHANGED <<agentVars, decodeVars, callVars, fallbackVars, planArgs>>

NextPlan == CreatePlan

SpecPlan == InitPlan /\ [][NextPlan]_vars

(***************************************************************************)
(* Properties.                                                             *)
(***************************************************************************)
ErrorKinds == {"fatal_schema_error", "ai_call_failed"}
CompletedKinds == {"final_answer", "summary_failed"}

WriteCapExceeded == Assistant("write_patch:ERROR: write cap exceeded")
CmdCapExceeded == Assistant("run_cmd:ERROR: command cap exceeded")

Dispatching(action) == pc = "dispatch" /\ decision.action = action

\* the tool of the step just taken returned, with success or not
ToolReturned == lastTool'.outcome \in {"ok", "failed"}

C1_Step ==
  /\ Dispatching("write_patch") /\ writes = caps.maxWrites
       => /\ writeExecs' = writeExecs
          /\ writes' = writes
          /\ transcript' = Append(transcript, WriteCapExceeded)
  /\ Dispatching("run_cmd") /\ cmds = caps.maxCmds
       => /\ cmdExecs' = cmdExecs
          /\ cmds' = cmds
          /\ transcript' = Append(transcript, CmdCapExceeded)

\* C1: a write (run-command) action dispatched while the writes (commands)
\* counter equals its cap does not execute the tool, leaves the counter as it
\* is and appends the cap-exceeded entry to the transcript.
C1_CapEnforcement == [][C1_Step]_vars

\* maxWrites counted writes, then a further write attempt that was refused
C1_Witness ==
  /\ caps.maxWrites >= 1
  /\ writes = caps.maxWrites
  /\ writeExecs = caps.maxWrites
  /\ lastTool = [action |-> "write_patch", outcome |-> "capped"]
  /\ Last(transcript) = WriteCapExceeded

\* C2: within one run the write tool is executed at most maxWrites times and
\* the command tool at most maxCmds times, whatever the executions' results.
C2_ExecutionsWithinCaps ==
  /\ writeExecs <= caps.maxWrites
  /\ cmdExecs <= caps.maxCmds

C3_Step ==
  /\ pc = "start" => writes' = 0 /\ cmds' = 0
  /\ pc # "start" => writes' >= writes /\ cmds' >= cmds
  /\ Dispatching("write_patch")
       => writes' = IF ToolReturned THEN writes + 1 ELSE writes
  /\ Dispatching("run_cmd")
       => cmds' = IF ToolReturned THEN cmds + 1 ELSE cmds
  /\ pc # "start" /\ ~Dispatching("write_patch") => writes' = writes
  /\ pc # "start" /\ ~Dispatching("run_cmd") => cmds' = cmds

\* C3 (amended): both counters are 0 at run start and never decrease; the
\* writes (commands) counter is increased, by one, exactly by a write
\* (command) action whose tool call returned, whether it reported success or
\* failure; a refusal by the cap and a tool call that threw leave it as it is.
C3_CountersFollowReturns == [][C3_Step]_vars

\* a write that ran and reported a failure was counted
C3_Witness ==
  /\ lastTool = [action |-> "write_patch", outcome |-> "failed"]
  /\ writes = 1
  /\ writeExecs = 1

C3_OriginalStep ==
  /\ pc = "start" => writes' = 0 /\ cmds' = 0
  /\ pc # "start" => writes' >= writes /\ cmds' >= cmds
  /\ pc # "start" /\ writes' # writes
       => Dispatching("write_patch") /\ lastTool'.outcome = "ok"
  /\ pc # "start" /\ cmds' # cmds
       => Dispatching("run_cmd") /\ lastTool'.outcome = "ok"

\* C3 as stated: the counters are increased only after an action that
\* succeeded; one that ran but failed leaves its counter unchanged.
C3_OnlySuccessCounted == [][C3_OriginalStep]_vars

HandlerThrew == pc = "dispatch" /\ lastTool'.outcome = "threw"

C4_Step ==
  HandlerThrew
    => /\ result'.kind # "exception"
       /\ IF step < maxSteps
            THEN pc' = "decide" /\ step' = step + 1
            ELSE pc' = "returned" /\ result' = MaxStepsResult

\* C4: a handler that throws in step k does not end the run: no exception
\* leaves runCodingAgent, and when k < maxSteps the loop goes on to the
\* decision of step k+1.
C4_HandlerThrowContained == [][C4_Step]_vars

\* the handler of step 1 threw and the decision of step 2 is requested
C4_Witness ==
  /\ lastTool.outcome = "threw"
  /\ pc = "decide"
  /\ step = 2

\* C5: whenever a handler throws during a step, a failure notice is appended
\* to the transcript before the next decision is requested.
C5_FailureNoticeAppended ==
  [][HandlerThrew => Len(transcript') > Len(transcript)]_vars

\* the parsed value of a content, {} for an empty content
ParsedOf(c) == RawContentOf(c).value

\* v has no valid action of its own
LacksValidAction(v) ==
  \/ v.type # "object"
  \/ v.action \notin validActions

\* the payload the decoder validates: the content of a `properties` wrapper
\* that carries an action, else the parsed value
Payload(v) ==
  IF PropertiesAction(v) # Absent THEN extractedDecision(v) ELSE v

Decoded == decoded # NoDecision

\* C6 (amended): decoding always yields a decision; for content that is not
\* parseable JSON, or whose payload (the content of a `properties` wrapper
\* carrying an action, else the parsed value) lacks a valid action, that
\* decision is final_answer.
C6_DecodingTotal ==
  Decoded
    => /\ decoded.action \in validActions
       /\ (rawContent.kind = "garbage"
             \/ LacksValidAction(Payload(ParsedOf(rawContent))))
            => decoded.action = "final_answer"

\* a wrapper whose action is not of the enum was decoded to final_answer
C6_Witness ==
  /\ Decoded
  /\ rawContent.kind = "json"
  /\ rawContent.value.type = "object"
  /\ rawContent.value.properties.action = "bogus"
  /\ decoded = FinalAnswer("Invalid decision structure in properties")

\* C6 as stated: whenever the parsed value itself lacks a valid action the
\* decision is final_answer.
C6_ParsedValueDecides ==
  Decoded
    => /\ decoded.action \in validActions
       /\ (rawContent.kind = "garbage"
             \/ LacksValidAction(ParsedOf(rawContent)))
            => decoded.action = "final_answer"

\* the catch block of the current attempt runs
CatchStep == callPc = "catch" /\ callPc' # "catch"

\* C7: an attempt of makeAICall that fails with a schema error is followed
\* by no further attempt and no backoff sleep; the error is thrown to the
\* caller at once.
C7_SchemaErrorNotRetried ==
  [][CatchStep /\ caught.error.kind = "schema"
       => /\ callPc' = "threw"
          /\ response' = Threw(caught.error)
          /\ waits' = waits
          /\ attempt' = attempt]_vars

\* C8: when the decision call of step k fails, runCodingAgent returns at
\* once with the Error outcome, stepsTaken = k and the token totals so far;
\* no further model call and no handler follow the failure.
C8_DecisionFailureEndsRun ==
  lastCalls.decisionThrew
    => /\ pc = "returned"
       /\ result.kind \in ErrorKinds
       /\ result.steps = step
       /\ result.hasTokenUsage

\* C9: a failed decision call is classified as the fatal schema error only
\* when the provider rejected the schema or format itself; timeouts, network
\* errors and other provider errors give the non-fatal Error outcome.
C9_OnlySchemaRejectionFatal ==
  pc = "returned" /\ result.kind \in ErrorKinds
    => (result.fatal => result.error.kind = "schema")

\* C10: a schema error raised by any model call of a run (planning, decision,
\* a tool's own call, summary) ends the run at once with the Error outcome.
C10_SchemaErrorAbortsRun ==
  lastCalls.schemaError
    => pc = "returned" /\ result.kind \in ErrorKinds

\* a run ends: runCodingAgent returns or the process exits
RunEnds == pc \notin {"returned", "exited"} /\ pc' \in {"returned", "exited"}

\* C11: a run with maxSteps = N in which no decision is final_answer and no
\* decision call fails takes exactly N steps and returns the max-steps
\* result with steps = N.  A run can end only once, so this is: a run that
\* ends otherwise than after a final_answer decision or a failed decision
\* call ends with the max-steps result after step N.
C11_NeverFinishedEndsCapped ==
  [][RunEnds /\ pc # "summary" /\ ~lastCalls'.decisionThrew
       => /\ pc' = "returned"
          /\ result'.kind = "max_steps"
          /\ result'.steps = maxSteps
          /\ step' = maxSteps]_vars

\* C12: a final_answer decision at step 1 ends the run with a Completed
\* result whose steps is 1 and whose message is a non-empty string.
C12_FinishAtStepOne ==
  [][pc = "summary" /\ step = 1
       => /\ pc' = "returned"
          /\ result'.kind \in CompletedKinds
          /\ result'.steps = 1
          /\ result'.message # ""]_vars

C12_Witness ==
  /\ pc = "returned"
  /\ result.kind = "final_answer"
  /\ result.steps = 1
  /\ step = 1

\* C13: the summary call takes no step: a final_answer decision at step k,
\* k = maxSteps included, ends the run Completed with steps = k, whether the
\* summary call returns or fails, and never with the max-steps result.
C13_SummaryTakesNoStep ==
  [][pc = "summary"
       => /\ pc' = "returned"
          /\ step' = step
          /\ result'.kind \in CompletedKinds
          /\ result'.steps = step]_vars

C13_Witness ==
  /\ pc = "returned"
  /\ result.kind = "summary_failed"
  /\ result.steps = maxSteps
  /\ step = maxSteps
  /\ maxSteps > 1

\* the entries of the transcript with the given content
Entries(t, content) == {i \in 1..Len(t) : t[i].content = content}

SimplePageGoal == "Create a simple HTML page"

\* C15: for the goal "Create a simple HTML page" the complexity heuristic is
\* true (the goal contains the task verb "create"): the planning phase runs
\* the project analysis once and then creates a plan, both before step 1.
C15_SimplePageIsPlanned ==
  [][pc = "planning" /\ userGoal = SimplePageGoal
       => /\ isComplexTask(userGoal)
          /\ Cardinality(Entries(transcript', "analyze_project:")) = 1
          /\ Cardinality(Entries(transcript', "create_plan:")) = 1
          /\ \A i \in Entries(transcript', "analyze_project:"),
                j \in Entries(transcript', "create_plan:") : i < j
          /\ step' <= 1]_vars

C15_Witness ==
  /\ userGoal = SimplePageGoal
  /\ pc = "decide"
  /\ step = 1
  /\ Entries(transcript, "create_plan:") # {}
  /\ Entries(transcript, "analyze_project:") # {}

\* C15 as stated: for that goal the complexity heuristic is false, so the
\* planning phase creates no plan, while the project analysis runs once.
C15_SimplePageNotPlanned ==
  [][pc = "planning" /\ userGoal = SimplePageGoal
       => /\ Cardinality(Entries(transcript', "analyze_project:")) = 1
          /\ Entries(transcript', "create_plan:") = {}]_vars

\* C17: a decision that reaches dispatch with a non-terminal action has an
\* object as tool_input; a final_answer decision may carry a tool_input.
C17_DispatchedHasToolInput ==
  pc = "dispatch"
    => /\ decision.action \in validActions \ {"final_answer"}
       /\ decision.tool_input \in {"empty", "full"}

C17_Witness ==
  /\ pc = "dispatch"
  /\ decision.action = "generate_expression"
  /\ decision.tool_input = "empty"

\* C17 as stated: moreover a final_answer decision carries no parameters.
C17_TerminalHasNoParameters ==
  /\ C17_DispatchedHasToolInput
  /\ pc = "summary"
       => decision.action = "final_answer" /\ decision.tool_input = Absent

IsPrefix(s, t) == Len(s) <= Len(t) /\ SubSeq(t, 1, Len(s)) = s

\* C20: once created, the transcript of a run is append-only: every step
\* leaves the entries it holds in place and unchanged, entry 0 (the system
\* message) included.
C20_TranscriptAppendOnly ==
  [][pc # "start"
       => /\ IsPrefix(transcript, transcript')
          /\ transcript'[1] = Msg("system", "prompt")]_vars

C20_Witness ==
  /\ pc = "decide"
  /\ step = 2
  /\ Len(transcript) >= 6
  /\ transcript[1].role = "system"
  /\ lastTool.outcome = "ok"

\* the transcript given to the call is longer than the threshold and
\* truncation is enabled
Truncating ==
  /\ callPc \notin {"idle", "entry"}
  /\ truncateTranscript
  /\ Len(messages) > TruncateThreshold

\* C18: for a transcript of length L > 20 given to makeAICall with truncation
\* enabled, the list the provider calls are built from has length 17, its
\* first two entries are the first two of the transcript and its last 15 the
\* last 15 of the transcript; every provider call is given the system
\* message of that list (the generateText fallback appends its JSON
\* instruction to it) and the other 16 entries in order.
C18_TruncatedTo17 ==
  Truncating
    => /\ Len(processedMessages) = 17
       /\ SubSeq(processedMessages, 1, 2) = SubSeq(messages, 1, 2)
       /\ SubSeq(processedMessages, 3, 17)
            = SubSeq(messages, Len(messages) - 14, Len(messages))
       /\ sent # NoSent
            => /\ sent.messages = SubSeq(processedMessages, 2, 17)
               /\ sent.system \in
                    {messages[1].content,
                     messages[1].content \o jsonInstruction}

C18_Witness ==
  /\ Truncating
  /\ Len(messages) = 22
  /\ sent.via = "generateObject"
  /\ Len(sent.messages) = 16
  /\ callPc = "returned"

\* C19: makeAICall never changes the array it is given, whether it
\* truncates, retries or falls back.
C19_MessagesNotMutated ==
  [][callPc # "idle" => messages' = messages]_vars

C19_Witness ==
  /\ Truncating
  /\ Len(messages) = 21
  /\ Len(processedMessages) = 17
  /\ sent.via = "generateText"
  /\ Len(waits) >= 1

\* the fallback has rethrown, or its return has been decoded
FallbackEnded == fbPc = "threw" \/ (fbPc = "returned" /\ decoded # NoDecision)

\* Here is the JSON: {"action": "search_repo", "tool_input": {"query": "foo"},}
MalformedText == Prose \o TrailingComma

\* C14: the text with leading prose and a trailing comma comes out of the
\* repair as the decision {action: "search_repo", tool_input: {query: "foo"}}
\* and the step decodes it to a search_repo decision, which is dispatched.
C14_MalformedTextIsRepaired ==
  FallbackEnded /\ generatedText = MalformedText
    => /\ fbPc = "returned"
       /\ validatedObject = Parsed(SearchDecision)
       /\ decoded.action = "search_repo"
       /\ decoded.tool_input = "full"

\* what JSON.parse returned, before any repair of the decision
ParsedDecision == Parsed(repairMalformedJSON(jsonText))

ActionOf(v) == Unquote(get(members(v), "action")[1])

\* C16: a parsed decision that fails validation is repaired and validated
\* again: when the repaired decision is valid the step decodes to its
\* action, and only when it is still invalid to final_answer.
C16_RepairedBeforeDefaulting ==
  /\ FallbackEnded
  /\ jsonText # NoJson
  /\ Parses(repairMalformedJSON(jsonText))
  /\ ~SchemaAccepts(ParsedDecision)
  => decoded.action =
       IF SchemaAccepts(repairDecisionObject(ParsedDecision))
         THEN ActionOf(repairDecisionObject(ParsedDecision))
         ELSE "final_answer"

\* C21: every step whose decision is non-terminal appends at least one entry
\* (the rationale and the result of the action) to the transcript before
\* the decision of the next step is requested.
C21_StepAppendsBeforeNextDecision ==
  [][pc = "dispatch" /\ pc' = "decide"
       => Len(transcript') > Len(transcript)]_vars

\* the attempt failed with a NoObjectGeneratedError whose text repairs into
\* an object of the schema
RepairableFailure ==
  /\ callPc = "catch"
  /\ isNoObjectGeneratedError(caught.error)
  /\ caught.hasText
  /\ caught.repairable

\* C22: an attempt that fails with a NoObjectGeneratedError carrying a text
\* that repairs into a valid object returns that object without a further
\* attempt when it is the final attempt; on an earlier attempt the text is
\* not looked at and the call is retried after the backoff wait.
C22_RepairOnFinalAttemptOnly ==
  [][CatchStep /\ RepairableFailure
       => IF attempt = maxRetries
            THEN /\ callPc' = "returned"
                 /\ response' = Returned("repair")
                 /\ attempt' = attempt
                 /\ waits' = waits
            ELSE /\ callPc' = "loop"
                 /\ response' = response
                 /\ attempt' = attempt + 1
                 /\ waits' = Append(waits, waitTime(attempt))]_vars

\* a call returned a repaired text after earlier attempts had failed
C22_Witness ==
  /\ callPc = "returned"
  /\ response.via = "repair"
  /\ attempt = maxRetries
  /\ Len(waits) = maxRetries - 1
  /\ maxRetries > 1

\* C22 as stated: on any attempt, not only the last, a repairable text is
\* returned as success without a further attempt.
C22_RepairOnAnyAttempt ==
  [][CatchStep /\ RepairableFailure
       => /\ callPc' = "returned"
          /\ response' = Returned("repair")
          /\ attempt' = attempt
          /\ waits' = waits]_vars

\* the catch block calls generateText
GenerateTextCalled == CatchStep /\ sent'.via = "generateText"

\* C23: the generateText fallback is called only for a schema error of
\* Ollama on the final attempt, and at most once in a call of makeAICall:
\* the call ends with it, returning the object obtained from the text when
\* it validates and throwing the error of the attempt otherwise.
C23_GenerateTextOnFinalAttemptOnce ==
  [][GenerateTextCalled
       => /\ sent.via # "generateText"
          /\ attempt = maxRetries
          /\ isOllamaSchemaError(caught.error)
          /\ ~isNoObjectGeneratedError(caught.error)
          /\ attempt' = attempt
          /\ waits' = waits
          /\ \/ callPc' = "returned" /\ response' = Returned("generateText")
             \/ callPc' = "threw" /\ response' = Threw(caught.error)]_vars

\* the fallback succeeded after earlier attempts had failed
C23_Witness ==
  /\ callPc = "returned"
  /\ response.via = "generateText"
  /\ sent.via = "generateText"
  /\ attempt = maxRetries
  /\ Len(waits) = maxRetries - 1
  /\ maxRetries > 1

\* C24: when the final attempt of makeAICall fails and no fallback
\* succeeds, the call throws the error of that attempt: it returns a result
\* only from the repair of the generated text or from the generateText
\* fallback.
C24_ExhaustedCallThrowsLastError ==
  [][CatchStep /\ attempt = maxRetries
       => IF callPc' = "returned"
            THEN response'.via \in {"repair", "generateText"}
            ELSE /\ callPc' = "threw"
                 /\ response' = Threw(caught.error)]_vars

\* every attempt failed and the generateText fallback gave no valid object
C24_Witness ==
  /\ callPc = "threw"
  /\ sent.via = "generateText"
  /\ response = Threw(OllamaSchemaRejected)
  /\ attempt = maxRetries
  /\ Len(waits) = maxRetries - 1
  /\ maxRetries > 1

\* C25: an attempt whose provider call did not settle within the timeout
\* fails with the timeout error, which is handled as any failed attempt:
\* retried after the backoff wait when attempts remain, thrown to the
\* caller when the attempt was the last.
C25_TimeoutIsRetriedThenThrown ==
  [][CatchStep /\ caught.error = TimeoutError
       => IF attempt < maxRetries
            THEN /\ callPc' = "loop"
                 /\ attempt' = attempt + 1
                 /\ waits' = Append(waits, waitTime(attempt))
                 /\ response' = response
            ELSE /\ callPc' = "threw"
                 /\ response' = Threw(TimeoutError)
                 /\ waits' = waits]_vars

\* a call whose last attempt timed out, after a retry
C25_Witness ==
  /\ callPc = "threw"
  /\ response = Threw(TimeoutError)
  /\ Len(waits) = maxRetries - 1
  /\ maxRetries > 1

\* C29: the value runCodingAgent returns carries the token totals of the run
\* in every terminal status, Completed, Capped and Error.
C29_EveryOutcomeCarriesTokenTotals ==
  pc = "returned" => result.hasTokenUsage

\* C26: the wait before the retry that follows failing attempt n is
\* min(1000 * 2^(n-1), 10000) ms: 1000, 2000, 4000 and 8000 ms after the
\* failing attempts 1, 2, 3 and 4, and never more than 10000 ms
C26_BackoffDoublesUpToCap ==
  \A n \in 1..Len(waits) :
    /\ waits[n] = CASE n = 1 -> 1000
                    [] n = 2 -> 2000
                    [] n = 3 -> 4000
                    [] n = 4 -> 8000
                    [] OTHER -> 10000
    /\ waits[n] <= 10000

\* a call has waited after its fifth failing attempt, where the doubling
\* would pass the cap
C26_Witness ==
  /\ callPc = "attempt"
  /\ attempt = 6
  /\ Len(waits) = 5
  /\ waits[4] = 8000
  /\ waits[5] = 10000

\* C27: at most one model request is in flight: an attempt of makeAICall
\* issues its request only when no request of an earlier attempt of the
\* call is still outstanding
C27_NoRequestWhileOneOutstanding ==
  [][callPc = "attempt" /\ sent' = generateObjectParams(processedMessages)
       /\ callPc' # "attempt"
       => pending = 0]_vars

\* C28: the counter of calls counts the model calls that returned a result
\* to their caller, by constrained generation, by the repair of the
\* generated text or by the generateText fallback: each call of makeAICall
\* that returns adds one to it
C28_CounterCountsReturnedCalls ==
  [][callPc # "returned" /\ callPc' = "returned"
       => totalCalls' = totalCalls + 1]_vars

\* the plans created so far in the run, each projected into the transcript
PlansCreated(t) == Cardinality(Entries(t, "create_plan:"))

\* C30: the planning phase creates one plan when the goal is complex and
\* none otherwise; in the step loop every create_plan decision creates one
\* more plan, and nothing else creates a plan.
C30_PlanPerPlanningAndPerDecision ==
  [][PlansCreated(transcript') - PlansCreated(transcript) =
       IF pc = "planning" /\ isComplexTask(userGoal) THEN 1
       ELSE IF pc = "dispatch" /\ decision.action = "create_plan" THEN 1
       ELSE 0]_vars

\* a run of a complex goal whose first decision was create_plan holds the
\* plan of the planning phase and the plan of step 1
C30_Witness ==
  /\ isComplexTask(userGoal)
  /\ step >= 1
  /\ lastTool.action = "create_plan"
  /\ PlansCreated(transcript) = 2

\* C30 as stated: at most one plan is created per run, and only by the
\* planning phase.
C30_AtMostOnePlanPerRun ==
  /\ PlansCreated(transcript) <= 1
  /\ PlansCreated(transcript) = 1 => isComplexTask(userGoal)

\* the valid JSON objects a text embeds
EmbeddedObjects(text) ==
  {b \in Bodies : Parses(b) /\ Head(b) = "{" /\ text \in Embeddings(b)}

\* C31: for a valid JSON object embedded in a text, in a fenced code block,
\* in prose or as the entire text, extractJsonFromText returns a string,
\* not null, that parses to the embedded object
C31_EmbeddedObjectIsExtracted ==
  fbPath = "ollama" /\ fbPc # "catch"
    => \A b \in EmbeddedObjects(generatedText) :
         /\ jsonText # NoJson
         /\ Parses(jsonText)
         /\ Parsed(jsonText) = Parsed(b)

\* C32: repairMalformedJSON is idempotent: repairing the text it returned
\* gives that text again
C32_RepairIsIdempotent ==
  fbPc \in {"repair_object", "validate", "returned", "threw"}
    /\ jsonText # NoJson
    => repairMalformedJSON(repairMalformedJSON(jsonText))
         = repairMalformedJSON(jsonText)

\* the value JSON.parse gave in the fallback, before any repair of it
ParsedText == Parsed(repairMalformedJSON(jsonText))

\* C33: the repair functions are total: repairPlanSteps throws for no
\* parsed value, a plan with a null step included, and returns the value
\* it cannot repair as it is
C33_RepairNeverThrows ==
  fbPc \in {"repair_object", "validate", "returned", "threw"}
    /\ jsonText # NoJson /\ Parses(repairMalformedJSON(jsonText))
    => repairPlanSteps(ParsedText) # TypeErrorThrown

RepairedArgument == repairPlanSteps(ParsedText)

\* C35: repairDecisionObject is pure: after the call the object passed in,
\* its nested tool_input included, has the fields and values it had
\* before
C35_RepairLeavesArgument ==
  fbPath = "ollama" /\ fbPc \in {"validate", "returned"}
    /\ IsObjectValue(RepairedArgument)
    => repairArgument = RepairedArgument

\* the action of a parsed object is absent or no action of the enum
ActionNotInEnum(v) ==
  \/ get(members(v), "action") = Undefined
  \/ ~IsStringValue(get(members(v), "action"))
  \/ Unquote(get(members(v), "action")[1]) \notin validActions

\* C36: for an object whose action is absent or is no value of the enum,
\* repairDecisionObject infers the action from the parameter keys present,
\* at the top level or in tool_input: the object it returns has the action
\* those keys belong to
C36_ActionInferredFromKeys ==
  fbPath = "ollama" /\ repairArgument # Undefined
    /\ ActionNotInEnum(RepairedArgument)
    /\ inferAction(members(RepairedArgument), 1) # "final_answer"
    => get(members(parsedObject), "action")
         = <<Q(inferAction(members(RepairedArgument), 1))>>

\* a decision is requested from the model
DecisionRequested == pc \in {"decide", "decide_again"} /\ pc' # pc

\* C37: a run ends in one of Completed, Capped and Error, with a number of
\* steps of at most maxSteps, and it requests at most maxSteps decisions:
\* one in each step of the loop.
C37_RunEndsWithinMaxSteps ==
  [][/\ RunEnds
          => /\ pc' = "returned"
             /\ result'.kind
                  \in CompletedKinds \cup ErrorKinds \cup {"max_steps"}
             /\ result'.steps <= maxSteps
     /\ DecisionRequested => pc = "decide" /\ step \in 1..maxSteps]_vars

\* generateObject is called
GenerateObjectCalled == callPc = "attempt" /\ callPc' # "attempt"

\* C38: a call of makeAICall makes at most maxRetries calls of
\* generateObject and at most one call of generateText, and sleeps at most
\* maxRetries - 1 times, never after its final attempt: the n-th call of
\* generateObject has n <= maxRetries and follows n - 1 sleeps, a sleep
\* follows only a failed attempt n < maxRetries and is the n-th, and the
\* call of generateText ends the call.
C38_CallsAndSleepsBounded ==
  [][/\ GenerateObjectCalled
          => /\ attempt \in 1..maxRetries
             /\ Len(waits) = attempt - 1
             /\ attempt' = attempt
             /\ waits' = waits
     /\ waits' # waits
          => /\ CatchStep
             /\ attempt < maxRetries
             /\ Len(waits') = attempt
             /\ attempt' = attempt + 1
             /\ callPc' = "loop"
     /\ attempt' # attempt => waits' # waits
     /\ GenerateTextCalled
          => /\ sent.via = "generateObject"
             /\ callPc' \in {"returned", "threw"}]_vars

\* the last of maxRetries calls of generateObject succeeded, after
\* maxRetries - 1 sleeps
C38_Witness ==
  /\ callPc = "returned"
  /\ response.via = "generateObject"
  /\ maxRetries >= 3
  /\ attempt = maxRetries
  /\ Len(waits) = maxRetries - 1

\* C39: withSpan executes the wrapped function once per call, with tracing
\* or without, whether the function returns or throws: the write_patch
\* tool of a step is executed at most once, and a decision call that threw
\* is not made a second time in its step.
C39_WrappedFunctionRunsOnce ==
  [][/\ Dispatching("write_patch") => writeExecs' <= writeExecs + 1
     /\ Dispatching("run_cmd") => cmdExecs' <= cmdExecs + 1
     /\ pc' # "decide_again"]_vars

\* the summary call, as the catch block around it sees it, failed
SummaryFailed == pc = "summary" /\ lastCalls'.lastThrew

\* C40: when the summary call after a final_answer decision at step k
\* fails, the run still ends Completed, with steps = k and the default
\* message: the failure gives no Error outcome and is not thrown to the
\* caller.
C40_SummaryFailureStillCompletes ==
  [][SummaryFailed
       => /\ pc' = "returned"
          /\ result'.kind = "summary_failed"
          /\ result'.kind \notin ErrorKinds
          /\ ~result'.fatal
          /\ result'.steps = step
          /\ result'.message =
               "Task completed in steps. Summary generation failed"]_vars

\* the summary call of step 2 failed with the rejection of the schema
C40_Witness ==
  /\ pc = "returned"
  /\ lastCalls.lastThrew
  /\ lastCalls.schemaError
  /\ result.kind = "summary_failed"
  /\ result.steps = 2
  /\ step = 2

TypeOK ==
  /\ pc \in {"start", "planning", "decide", "decide_again", "summary",
              "dispatch",
              "returned", "exited"}
  /\ step \in 0..maxSteps
  /\ writes \in Nat
  /\ cmds \in Nat

====
